---- MODULE Spec2Model ----
(***************************************************************************)
(* Participant roster of the test-administration backend: the examiner    *)
(* collection (src/src/models/examiner.ts), its CRUD controller and the    *)
(* POST /upload-csv ingestion route (src/src/routes/examiner.ts).  The     *)
(* examinee and client routers are textual copies of the examiner router   *)
(* (ExamineeID / ClientID instead of ExaminerID), each over a collection   *)
(* of its own, so one collection stands for each of the three kinds.       *)
(*                                                                         *)
(* Every await of the route is a suspension point: the lookup of a row and *)
(* the write that follows it are separate steps, and other requests may    *)
(* run between them.                                                       *)
(*                                                                         *)
(* The administration / track / station hierarchy (src/src/models), its    *)
(* controllers (src/unnamed/part_003, src/src/routes/track.ts,             *)
(* src/unnamed/part_006) and the two bootstrap scripts: setup() of         *)
(* src/src/scripts/setup.ts, which wipes every collection and creates the  *)
(* hierarchy of a template, and setupStationsAndTracks() of                *)
(* src/unnamed/part_000, which resets tracks and stations and creates a    *)
(* fixed fan-out under every stored administration.  Every await of a      *)
(* script is a step.                                                       *)
(*                                                                         *)
(* The feedback router (src/src/routes/feedback.ts) with its validation    *)
(* middleware, its collection (src/src/models/feedback.ts) and its         *)
(* statistics; the responses of the handlers that answer a request by id;  *)
(* and the start of the server process (src/src/index.ts).                 *)
(***************************************************************************)
EXTENDS Integers, Sequences, FiniteSets, TLC

VARIABLES
    store,      \* the examiners collection: a set of documents
    nextId,     \* the next storage identity (_id) the database hands out
    req,        \* per upload request: position in router.post('/upload-csv')
    hist,       \* outcomes of the uploads of one file run back to back
    admins,     \* the administrations collection
    tracks,     \* the tracks collection
    stations,   \* the stations collection
    oid,        \* the next ObjectId of a document of the hierarchy or of a roster upsert
    run,        \* the bootstrap script that is running: its position and locals
    feedbacks,  \* the feedbacks collection
    res,        \* the response of the controller request served last
    server      \* the HTTP server process of src/src/index.ts

\* what the routes of the roster leave alone: the hierarchy, the bootstrap
\* script, the feedbacks and the server process
hvars == <<admins, tracks, stations, oid, run, feedbacks, server>>

vars == <<store, nextId, req, hist, admins, tracks, stations, oid, run,
          feedbacks, res, server>>

----------------------------------------------------------------------------
(* Bounds of the model *)

MaxDocs == 2        \* identities the database hands out in one behaviour
MaxLines == 2       \* lines after the header row of an uploaded file
MaxLinesConc == 1   \* the same, for the files of two uploads in flight at once
MaxPreOid == 3      \* documents the controllers create in the hierarchy and the feedbacks
MaxAdminsT == 2     \* administrations of a template
MaxTracksT == 2     \* tracks of an administration of a template
MaxStationsT == 2   \* stations of a track of a template
MaxRoster == 2      \* records of a participant file of the project
\* identities the scripts can take: a fan-out over MaxPreOid administrations
\* is the longest run
MaxOid == MaxPreOid + MaxPreOid * 8 + MaxRoster

(* Values *)

Undefined == "<undefined>"  \* JavaScript undefined: a column or body field that is absent
Keys == {"E1", "E2"}
Names == {"Ann", "Bob"}
KeyCells == Keys \cup {""}
NameCells == Names \cup {""}
Ids == 1..MaxDocs
None == 0           \* null: findOne found nothing
Reqs == {1, 2}      \* upload requests that can be in flight

KeyColumn == "ExaminerID"
NameColumn == "Name"
Columns == {KeyColumn, NameColumn}

----------------------------------------------------------------------------
(* CSV files.  A file is its header (the recognized columns it carries)    *)
(* and its lines.  A line is empty, a row giving one cell per header       *)
(* column, or a ragged row whose field count differs from the header's.    *)

EmptyLine == [type |-> "empty", cells |-> <<>>]
RaggedLine == [type |-> "ragged", cells |-> <<>>]
RowLine(cells) == [type |-> "row", cells |-> cells]

CellsOf(col) == IF col = KeyColumn THEN KeyCells ELSE NameCells

RowsFor(header) ==
    { RowLine(c) : c \in { f \in [header -> KeyCells \cup NameCells] :
                             \A col \in header : f[col] \in CellsOf(col) } }

LinesFor(header) == RowsFor(header) \cup {EmptyLine}

SeqsUpTo(S, n) == UNION { [1..k -> S] : k \in 0..n }

FilesOfLength(n) ==
    UNION { { [header |-> h, lines |-> ls] : ls \in SeqsUpTo(LinesFor(h), n) } :
            h \in SUBSET Columns }

(* The acceptance scenario of the specification: E1/Ann, E1/Ann B, E2/Bob. *)
ScenarioFile ==
    [header |-> Columns,
     lines |-> << RowLine([c \in Columns |-> IF c = KeyColumn THEN "E1" ELSE "Ann"]),
                  RowLine([c \in Columns |-> IF c = KeyColumn THEN "E1" ELSE "Ann B"]),
                  RowLine([c \in Columns |-> IF c = KeyColumn THEN "E2" ELSE "Bob"]) >>]

(* A file the parser rejects: its second row has a field too many. *)
RaggedFile ==
    [header |-> Columns,
     lines |-> << RowLine([c \in Columns |-> IF c = KeyColumn THEN "E1" ELSE "Ann"]),
                  RaggedLine >>]

Files == FilesOfLength(MaxLines) \cup {ScenarioFile, RaggedFile}

(* What multer hands to the route: no file, or a buffer with the media     *)
(* type the client declared for it.                                        *)
NoUpload == [hasFile |-> FALSE, mimetype |-> "", file |-> [header |-> {}, lines |-> <<>>]]
Upload(mimetype, file) == [hasFile |-> TRUE, mimetype |-> mimetype, file |-> file]

Uploads ==
    {NoUpload}
    \cup { Upload("text/csv", f) : f \in Files }
    \cup { Upload("text/plain", f) : f \in FilesOfLength(1) }

----------------------------------------------------------------------------
(* csv-parse with columns: true, skip_empty_lines: true, and the mapping   *)
(* of each parsed row to a CSVRecord.                                      *)

ParseFails(file) == \E k \in 1..Len(file.lines) : file.lines[k].type = "ragged"

Field(cells, col) == IF col \in DOMAIN cells THEN cells[col] ELSE Undefined

ToRecord(line) ==
    [examinerId |-> Field(line.cells, KeyColumn), name |-> Field(line.cells, NameColumn)]

RECURSIVE ParseLines(_)
ParseLines(lines) ==
    IF lines = <<>> THEN <<>>
    ELSE IF Head(lines).type = "empty" THEN ParseLines(Tail(lines))
    ELSE <<ToRecord(Head(lines))>> \o ParseLines(Tail(lines))

Parse(file) == ParseLines(file.lines)

----------------------------------------------------------------------------
(* The collection: schema validation, the unique index, and the queries    *)
(* the routes issue.                                                       *)

\* a slip of Required: the schema without required: true
RequiredUnchecked(v) == TRUE

\* required: true on a String path rejects undefined and the empty string
Required(v) == v # Undefined /\ v # ""

ValidationError(rec) ==
    IF ~Required(rec.examinerId) \/ ~Required(rec.name)
    THEN "Examiner validation failed" ELSE ""

\* a slip of DuplicateKey: the schema without unique: true
DuplicateKeyUnchecked(st, key, selfId) == FALSE

\* unique: true on examinerId: no other document may carry the key
DuplicateKey(st, key, selfId) == \E d \in st : d._id # selfId /\ d.examinerId = key

\* a slip of FindOne: the lookup never finds the record
FindOneNothing(st, key) == None

FindOne(st, key) ==
    IF \E d \in st : d.examinerId = key
    THEN (CHOOSE d \in st : d.examinerId = key)._id
    ELSE None

FindById(st, id) == { d \in st : d._id = id }

\* a slip of Patch: the update replaces the document by a new one
PatchAsNewDocument(doc, upd) ==
    [_id |-> doc._id + MaxDocs,
     examinerId |-> IF upd.examinerId = Undefined THEN doc.examinerId ELSE upd.examinerId,
     name |-> IF upd.name = Undefined THEN doc.name ELSE upd.name]

\* $set of the fields of an update; undefined fields are stripped
Patch(doc, upd) ==
    [_id |-> doc._id,
     examinerId |-> IF upd.examinerId = Undefined THEN doc.examinerId ELSE upd.examinerId,
     name |-> IF upd.name = Undefined THEN doc.name ELSE upd.name]

\* Model.create / new Model(body).save(): [ok, error, store]
Create(st, id, rec) ==
    IF ValidationError(rec) # "" THEN [error |-> ValidationError(rec), store |-> st]
    ELSE IF DuplicateKey(st, rec.examinerId, None)
    THEN [error |-> "E11000 duplicate key error", store |-> st]
    ELSE [error |-> "",
          store |-> st \cup {[_id |-> id, examinerId |-> rec.examinerId, name |-> rec.name]}]

\* an update validator runs required on every field the update sets
UpdateValidationError(upd) ==
    IF (upd.examinerId # Undefined /\ ~Required(upd.examinerId))
       \/ (upd.name # Undefined /\ ~Required(upd.name))
    THEN "Validation failed" ELSE ""

\* Model.findByIdAndUpdate(id, upd, {runValidators}): [error, found, store]
FindByIdAndUpdate(st, id, upd, runValidators) ==
    IF runValidators /\ UpdateValidationError(upd) # ""
    THEN [error |-> UpdateValidationError(upd), found |-> FALSE, store |-> st]
    ELSE IF FindById(st, id) = {} THEN [error |-> "", found |-> FALSE, store |-> st]
    ELSE LET doc == CHOOSE d \in st : d._id = id
             new == Patch(doc, upd)
         IN  IF DuplicateKey(st, new.examinerId, id)
             THEN [error |-> "E11000 duplicate key error", found |-> FALSE, store |-> st]
             ELSE [error |-> "", found |-> TRUE, store |-> (st \ {doc}) \cup {new}]

FindByIdAndDelete(st, id) ==
    [found |-> FindById(st, id) # {}, store |-> { d \in st : d._id # id }]

Pairs(st) == { <<d.examinerId, d.name>> : d \in st }

NoStats ==
    [totalFeedbacks |-> -1, averageRating |-> -1,
     rating5 |-> -1, rating4 |-> -1, rating3 |-> -1, rating2 |-> -1, rating1 |-> -1]

\* no request has been answered
NoRes == [status |-> 0, message |-> "", error |-> "", id |-> None, stats |-> NoStats]

Booting == [listening |-> FALSE, db |-> "connecting"]
\* the server listens and mongoose is connected
Serving == [listening |-> TRUE, db |-> "connected"]

----------------------------------------------------------------------------
(* State of one upload request *)

NoResp == [status |-> 0, message |-> "", totalProcessed |-> 0,
           successCount |-> 0, failureCount |-> 0]

IdleReq ==
    [pc |-> "idle", upload |-> NoUpload, records |-> <<>>, i |-> 1, existing |-> None,
     success |-> <<>>, failed |-> <<>>, resp |-> NoResp]

\* what the observer of the sequential runs has seen
NoHist == [phase |-> "none", before |-> {}, verdicts |-> <<>>, runs |-> <<>>]

\* no script runs
NoRun ==
    [pc |-> "off", script |-> "none", flag |-> FALSE, config |-> <<>>, found |-> <<>>,
     a |-> 1, t |-> 1, j |-> 1, admin |-> None, adminName |-> <<>>, track |-> None,
     trackName |-> <<>>, trackIds |-> <<>>, pending |-> {}, roster |-> <<>>,
     upserts |-> {}, error |-> "", connected |-> FALSE, exit |-> -1]

Init ==
    /\ store = {}
    /\ nextId = 1
    /\ req = [r \in Reqs |-> IdleReq]
    /\ hist = NoHist
    /\ admins = {}
    /\ tracks = {}
    /\ stations = {}
    /\ oid = 1
    /\ run = NoRun
    /\ feedbacks = {}
    /\ res = NoRes
    /\ server = Serving

----------------------------------------------------------------------------
(* router.post('/upload-csv') *)

Reject(up, message) ==
    [IdleReq EXCEPT !.pc = "done", !.upload = up,
                    !.resp = [NoResp EXCEPT !.status = 400, !.message = message]]

\* a slip of Respond: an upload with failed rows is answered as a failure
RespondFailedRows(rq) ==
    [rq EXCEPT !.pc = "done",
               !.resp = [status |-> IF rq.failed = <<>> THEN 200 ELSE 500,
                         message |-> "CSV processed successfully",
                         totalProcessed |-> Len(rq.records),
                         successCount |-> Len(rq.success),
                         failureCount |-> Len(rq.failed)]]

\* res.json({...}) after the loop
Respond(rq) ==
    [rq EXCEPT !.pc = "done",
               !.resp = [status |-> 200, message |-> "CSV processed successfully",
                         totalProcessed |-> Len(rq.records),
                         successCount |-> Len(rq.success),
                         failureCount |-> Len(rq.failed)]]

\* a slip of Advance: the loop ends at the first row that failed
AdvanceUntilFailure(rq) ==
    IF rq.i >= Len(rq.records) \/ rq.failed # <<>> THEN Respond(rq)
    ELSE [rq EXCEPT !.pc = "find", !.i = rq.i + 1, !.existing = None]

\* the loop moves to the next record, or the route answers after the last one
Advance(rq) ==
    IF rq.i >= Len(rq.records) THEN Respond(rq)
    ELSE [rq EXCEPT !.pc = "find", !.i = rq.i + 1, !.existing = None]

\* a slip of PushSuccess: the record is put at the front of the list
PushSuccessFront(rq) == [rq EXCEPT !.success = <<rq.records[rq.i]>> \o rq.success]

PushSuccess(rq) == [rq EXCEPT !.success = Append(rq.success, rq.records[rq.i])]

\* a slip of PushFailed: the catch swallows the error and records nothing
PushFailedSwallowed(rq, reason) == rq

PushFailed(rq, reason) ==
    [rq EXCEPT !.failed = Append(rq.failed,
        [examinerId |-> rq.records[rq.i].examinerId,
         name |-> rq.records[rq.i].name,
         reason |-> IF reason = "" THEN "Unknown error occurred" ELSE reason])]

\* a slip of UploadStart: the media type of the upload is not looked at
UploadStartAnyType(r, up) ==
    /\ req[r].pc \in {"idle", "done"}
    /\ UNCHANGED <<store, nextId, hvars>>
    /\ req' = [req EXCEPT ![r] =
                 IF ~up.hasFile THEN Reject(up, "No file uploaded")
                 ELSE IF ParseFails(up.file) THEN Reject(up, "Error processing CSV file")
                 ELSE LET rq == [IdleReq EXCEPT !.pc = "find", !.upload = up,
                                                !.records = Parse(up.file)]
                      IN  IF rq.records = <<>> THEN Respond(rq) ELSE rq]

\* the request arrives: the two guards, then the parse of the whole buffer
UploadStart(r, up) ==
    /\ req[r].pc \in {"idle", "done"}
    /\ UNCHANGED <<store, nextId, hvars>>
    /\ req' = [req EXCEPT ![r] =
                 IF ~up.hasFile THEN Reject(up, "No file uploaded")
                 ELSE IF up.mimetype # "text/csv"
                 THEN Reject(up, "Please upload a CSV file")
                 ELSE IF ParseFails(up.file) THEN Reject(up, "Error processing CSV file")
                 ELSE LET rq == [IdleReq EXCEPT !.pc = "find", !.upload = up,
                                                !.records = Parse(up.file)]
                      IN  IF rq.records = <<>> THEN Respond(rq) ELSE rq]

\* const existing = await Examiner.findOne({ examinerId: record.examinerId })
UploadFind(r) ==
    /\ req[r].pc = "find"
    /\ LET rq == req[r]
       IN  req' = [req EXCEPT ![r] = [rq EXCEPT !.pc = "write",
                      !.existing = FindOne(store, rq.records[rq.i].examinerId)]]
    /\ UNCHANGED <<store, nextId, hvars>>

\* a slip of WriteRow: the roster is synchronised to the row, and the
\* records of the other keys are dropped
WriteRowPruning(st, id, existing, rec) ==
    LET w == IF existing # None
             THEN LET u == FindByIdAndUpdate(st, existing, rec, FALSE)
                  IN  [error |-> u.error, store |-> u.store]
             ELSE Create(st, id, rec)
    IN  IF w.error # "" THEN w
        ELSE [error |-> "", store |-> { d \in w.store : d.examinerId = rec.examinerId }]

\* the write of one row: what the database answers
WriteRow(st, id, existing, rec) ==
    IF existing # None
    THEN LET u == FindByIdAndUpdate(st, existing, rec, FALSE)
         IN  [error |-> u.error, store |-> u.store]
    ELSE Create(st, id, rec)

\* the update or the create of the row, the push to a result list, and the
\* answer when the row was the last one
UploadWrite(r) ==
    /\ req[r].pc = "write"
    /\ LET rq == req[r]
           w == WriteRow(store, nextId, rq.existing, rq.records[rq.i])
           inserted == Cardinality(w.store) > Cardinality(store)
       IN  /\ inserted => nextId <= MaxDocs
           /\ store' = w.store
           /\ nextId' = IF inserted THEN nextId + 1 ELSE nextId
           /\ req' = [req EXCEPT ![r] =
                        Advance(IF w.error = "" THEN PushSuccess(rq)
                                ELSE PushFailed(rq, w.error))]
    /\ UNCHANGED hvars

\* the lookup of the row throws (the database cannot be reached): the catch
\* of the row records it and the loop goes on
UploadFindThrows(r) ==
    /\ req[r].pc = "find"
    /\ req' = [req EXCEPT ![r] = Advance(PushFailed(req[r], "storage unavailable"))]
    /\ UNCHANGED <<store, nextId, hvars>>

\* the update or the create of the row throws before it reaches the collection
UploadWriteThrows(r) ==
    /\ req[r].pc = "write"
    /\ req' = [req EXCEPT ![r] = Advance(PushFailed(req[r], "storage unavailable"))]
    /\ UNCHANGED <<store, nextId, hvars>>

----------------------------------------------------------------------------
(* examinerController *)

Bodies == [examinerId : KeyCells \cup {Undefined}, name : NameCells \cup {Undefined}]

CreateStatus(st, id, body) == IF Create(st, id, body).error = "" THEN 201 ELSE 400

ControllerCreate(body) ==
    LET c == Create(store, nextId, body)
    IN  /\ c.error = "" => nextId <= MaxDocs
        /\ store' = c.store
        /\ nextId' = IF c.error = "" THEN nextId + 1 ELSE nextId
        /\ UNCHANGED <<req, hvars>>

UpdateStatus(st, id, body) ==
    LET u == FindByIdAndUpdate(st, id, body, TRUE)
    IN  IF u.error # "" THEN 400 ELSE IF ~u.found THEN 404 ELSE 200

ControllerUpdate(id, body) ==
    /\ store' = FindByIdAndUpdate(store, id, body, TRUE).store
    /\ UNCHANGED <<nextId, req, hvars>>

DeleteStatus(st, id) == IF FindByIdAndDelete(st, id).found THEN 200 ELSE 404

ControllerDelete(id) ==
    /\ store' = FindByIdAndDelete(store, id).store
    /\ UNCHANGED <<nextId, req, hvars>>

----------------------------------------------------------------------------
(* The hierarchy: administrations, tracks, stations.                       *)
(*                                                                         *)
(* The schemas are strict (the mongoose default): a field that is no path  *)
(* of the schema is dropped from a new document and from an update.  The   *)
(* Administration schema has the one path name, so the adminId of a        *)
(* template and the tracks of a $set never reach the collection; the Track *)
(* schema has name and administrationId, the Station schema name and       *)
(* trackId.                                                                *)

AdministrationPaths == {"name"}
TrackPaths == {"name", "administrationId"}
StationPaths == {"name", "trackId"}

\* a stored administration; hasTracks tells whether the document carries a
\* tracks field at all
AdminDoc(id, name) == [_id |-> id, name |-> name, hasTracks |-> FALSE, tracks |-> <<>>]

\* a slip of TrackDoc: the track is given the identity after its own as its
\* administration, that of a document that is not created yet
TrackDocAhead(id, name, administrationId) ==
    [_id |-> id, name |-> name, administrationId |-> id + 1]

TrackDoc(id, name, administrationId) ==
    [_id |-> id, name |-> name, administrationId |-> administrationId]

StationDoc(id, name, trackId) == [_id |-> id, name |-> name, trackId |-> trackId]

\* { $set: { tracks: ids } } as the schema of the model casts it
SetTracks(paths, doc, ids) ==
    IF "tracks" \in paths THEN [doc EXCEPT !.hasTracks = TRUE, !.tracks = ids] ELSE doc

\* Administration.findByIdAndUpdate(id, { $set: { tracks: ids } })
LinkTracks(st, id, ids) ==
    { IF d._id = id THEN SetTracks(AdministrationPaths, d, ids) ELSE d : d \in st }

\* Administration.updateMany({}, { $set: { tracks: [] } })
ClearLists(st) == { SetTracks(AdministrationPaths, d, <<>>) : d \in st }

\* the documents of a collection as find() returns them: in insertion order
RECURSIVE InOrder(_)
InOrder(st) ==
    IF st = {} THEN <<>>
    ELSE LET first == CHOOSE d \in st : \A e \in st : d._id <= e._id
         IN  <<first>> \o InOrder(st \ {first})

----------------------------------------------------------------------------
(* administrationController, trackController, stationController: each      *)
(* request is one operation of the database.  A name that a body does not  *)
(* carry is Absent; a reference that it does not carry is None.  The name  *)
(* of an administration is the sequence of its characters; a character    *)
(* that a string of the model cannot hold is written as its code point.    *)

\* WhiteSpace and LineTerminator of ECMAScript, the characters trim() removes
WhiteSpace ==
    {" ", "\t", "\n", "\r", "\f", "U+000B", "U+00A0", "U+FEFF", "U+1680",
     "U+2000", "U+2001", "U+2002", "U+2003", "U+2004", "U+2005", "U+2006",
     "U+2007", "U+2008", "U+2009", "U+200A", "U+2028", "U+2029", "U+202F",
     "U+205F", "U+3000"}

IsSpace(c) == c \in WhiteSpace

RECURSIVE TrimStart(_)
TrimStart(text) ==
    IF text # <<>> /\ IsSpace(Head(text)) THEN TrimStart(Tail(text)) ELSE text

RECURSIVE TrimEnd(_)
TrimEnd(text) ==
    IF text # <<>> /\ IsSpace(text[Len(text)])
    THEN TrimEnd(SubSeq(text, 1, Len(text) - 1)) ELSE text

\* String.prototype.trim
Trim(text) == TrimEnd(TrimStart(text))

\* index === 0 ? 'Spring' : 'Fall'
Season(a) == IF a = 1 THEN "Spring" ELSE "Fall"

\* the characters of a season
SeasonLetters(season) ==
    IF season = "Spring" THEN <<"S", "p", "r", "i", "n", "g">> ELSE <<"F", "a", "l", "l">>

\* `${season} 2025 Administration`
AdministrationName(a) ==
    SeasonLetters(Season(a)) \o <<" ", "2", "0", "2", "5", " ", "A", "d", "m", "i", "n", "i",
                            "s", "t", "r", "a", "t", "i", "o", "n">>

Absent == <<>>
AdminNames == {AdministrationName(1), AdministrationName(2)}
RefIds == 1..MaxPreOid

\* the names a request carries: a name of the project, the empty name, white
\* space alone, and a name of the project with white space around it
AdminBodies ==
    [name : AdminNames \cup {<<>>, <<" ">>, <<"\t">>,
                             <<" ">> \o AdministrationName(1) \o <<"\n">>}]
TrackBodies == [name : {<<"Track X">>, Absent}, administrationId : RefIds \cup {None}]
StationBodies == [name : {<<"Station X">>, Absent}, trackId : RefIds \cup {None}]

\* if (!dto.name?.trim()) return; new Administration({ name: dto.name.trim() }).save()
AdminCreate(body) ==
    /\ oid <= MaxPreOid
    /\ IF Trim(body.name) = <<>> THEN UNCHANGED <<admins, oid>>
       ELSE /\ admins' = admins \cup {AdminDoc(oid, Trim(body.name))}
            /\ oid' = oid + 1
    /\ UNCHANGED <<store, nextId, req, hist, feedbacks, server, tracks, stations, run>>

\* Administration.findByIdAndUpdate(id, req.body, { new: true })
AdminUpdate(id, body) ==
    /\ admins' = { IF d._id = id THEN [d EXCEPT !.name = body.name] ELSE d : d \in admins }
    /\ UNCHANGED <<store, nextId, req, hist, feedbacks, server, tracks, stations, oid, run>>

\* Administration.findByIdAndDelete(id)
AdminDelete(id) ==
    /\ admins' = { d \in admins : d._id # id }
    /\ UNCHANGED <<store, nextId, req, hist, feedbacks, server, tracks, stations, oid, run>>

\* new Track(req.body).save(): name and administrationId are required
TrackCreate(body) ==
    /\ oid <= MaxPreOid
    /\ IF body.name = Absent \/ body.administrationId = None THEN UNCHANGED <<tracks, oid>>
       ELSE /\ tracks' = tracks \cup {TrackDoc(oid, body.name, body.administrationId)}
            /\ oid' = oid + 1
    /\ UNCHANGED <<store, nextId, req, hist, feedbacks, server, admins, stations, run>>

\* Track.findByIdAndUpdate(id, req.body, { new: true }): the fields of the
\* body replace those of the document, administrationId among them
TrackUpdate(id, body) ==
    /\ tracks' = { IF d._id = id
                   THEN [d EXCEPT
                           !.name = IF body.name = Absent THEN @ ELSE body.name,
                           !.administrationId =
                               IF body.administrationId = None THEN @
                               ELSE body.administrationId]
                   ELSE d : d \in tracks }
    /\ UNCHANGED <<store, nextId, req, hist, feedbacks, server, admins, stations, oid, run>>

\* a slip of TrackDelete: the stations of the track go with it
TrackDeleteCascading(id) ==
    /\ tracks' = { d \in tracks : d._id # id }
    /\ stations' = { d \in stations : d.trackId # id }
    /\ UNCHANGED <<store, nextId, req, hist, feedbacks, server, admins, oid, run>>

\* Track.findByIdAndDelete(id)
TrackDelete(id) ==
    /\ tracks' = { d \in tracks : d._id # id }
    /\ UNCHANGED <<store, nextId, req, hist, feedbacks, server, admins, stations, oid, run>>

\* new Station(req.body).save(): name and trackId are required
StationCreate(body) ==
    /\ oid <= MaxPreOid
    /\ IF body.name = Absent \/ body.trackId = None THEN UNCHANGED <<stations, oid>>
       ELSE /\ stations' = stations \cup {StationDoc(oid, body.name, body.trackId)}
            /\ oid' = oid + 1
    /\ UNCHANGED <<store, nextId, req, hist, feedbacks, server, admins, tracks, run>>

\* Station.findByIdAndUpdate(id, req.body, { new: true })
StationUpdate(id, body) ==
    /\ stations' = { IF d._id = id
                     THEN [d EXCEPT
                             !.name = IF body.name = Absent THEN @ ELSE body.name,
                             !.trackId = IF body.trackId = None THEN @ ELSE body.trackId]
                     ELSE d : d \in stations }
    /\ UNCHANGED <<store, nextId, req, hist, feedbacks, server, admins, tracks, oid, run>>

\* Station.findByIdAndDelete(id)
StationDelete(id) ==
    /\ stations' = { d \in stations : d._id # id }
    /\ UNCHANGED <<store, nextId, req, hist, feedbacks, server, admins, tracks, oid, run>>

----------------------------------------------------------------------------
(* admin_template.json and the configuration setup() builds from it.  An   *)
(* identifier of the template is held as its parts around "_":             *)
(* "track_1" is <<"track", "1">>.                                          *)

Digits == <<"1", "2", "3">>     \* the decimal numerals, as a template literal prints them
FanoutTracks == 2       \* for (let i = 1; i <= 2; i++)
FanoutStations == 3     \* for (let j = 1; j <= 3; j++)

TemplateId(prefix, n) == <<prefix, Digits[n]>>

\* id.split('_')[1]
Split1(id) == IF Len(id) >= 2 THEN id[2] ELSE "undefined"

\* the shapes of a template: per administration, per track, the number of stations
Shapes == SeqsUpTo(SeqsUpTo(0..MaxStationsT, MaxTracksT), MaxAdminsT)

Template(shape) ==
    [a \in DOMAIN shape |->
        [adminId |-> TemplateId("admin", a),
         tracks |-> [t \in DOMAIN shape[a] |->
            [trackId |-> TemplateId("track", t),
             stations |-> [k \in 1..shape[a][t] |-> TemplateId("station", k)]]]]]

Templates == { Template(shape) : shape \in Shapes }

\* const config: SetupConfig = { administrations: adminTemplate.map(...) }
Config(template) ==
    [a \in DOMAIN template |->
        [adminId |-> template[a].adminId,
         name |-> AdministrationName(a),
         tracks |-> [t \in DOMAIN template[a].tracks |->
            LET tt == template[a].tracks[t]
            IN  [trackId |-> tt.trackId,
                 name |-> <<"Track", Split1(tt.trackId), Season(a), "2025">>,
                 stations |-> [k \in DOMAIN tt.stations |->
                    [stationId |-> tt.stations[k],
                     name |-> <<"Station", Split1(tt.stations[k]),
                                "Track", Split1(tt.trackId)>>]]]]]]

\* `Track ${i} - ${admin.name}` and `Station ${j} - ${trackName}`
FanoutTrackName(i, adminName) == <<"Track", Digits[i], adminName>>
FanoutStationName(j, trackName) == <<"Station", Digits[j]>> \o trackName

\* the name in row k of a participant file of the project
RosterName(k) == IF k % 2 = 1 THEN "Ann" ELSE "Bob"

\* the participant files of the project, as the records csv-parse returns:
\* any key in any row, two rows of one key among them
Rosters ==
    UNION { { [k \in 1..n |-> [examinerId |-> keys[k], name |-> RosterName(k)]] :
                keys \in [1..n -> Keys] } : n \in 0..MaxRoster }

\* Examiner.findOneAndUpdate({ examinerId }, { examinerId, name }, { upsert: true })
Upsert(st, id, rec) ==
    IF FindOne(st, rec.examinerId) # None
    THEN { IF d._id = FindOne(st, rec.examinerId) THEN Patch(d, rec) ELSE d : d \in st }
    ELSE st \cup {[_id |-> id, examinerId |-> rec.examinerId, name |-> rec.name]}

----------------------------------------------------------------------------
(* The bootstrap scripts.  run.script tells which one runs: "setup" is     *)
(* setup() of scripts/setup.ts, "fanout" is setupStationsAndTracks().      *)
(* run.flag is the reset flag of the command line; neither script reads    *)
(* its command line.                                                       *)

Scripts == {"setup", "fanout"}

\* a slip of AfterClearStations: setup() goes on without deleting the tracks
AfterClearStationsKeepingTracks(script) ==
    IF script = "setup" THEN "clearAdmins" ELSE "clearLists"

\* a slip of AfterConnect: the fan-out script looks for the administrations
\* before its reset
AfterConnectSkippingReset(script) ==
    IF script = "setup" THEN "clearStations" ELSE "findAdmins"

\* the order of the awaits of clearExistingData(), per script, and what
\* follows the last of them
AfterConnect(script) == IF script = "setup" THEN "clearStations" ELSE "clearTracks"

AfterClearStations(script) == IF script = "setup" THEN "clearTracks" ELSE "clearLists"

AfterClearTracks(script) == IF script = "setup" THEN "clearAdmins" ELSE "clearStations"

\* the awaits of a script that one step of the model stands for, and that
\* may throw as a whole
ThrowingPcs ==
    {"connect", "clearStations", "clearTracks", "clearAdmins", "clearParticipants",
     "clearLists", "readTemplate", "findAdmins", "saveAdmin", "saveTrack",
     "saveStation", "linkTracks", "readRoster", "summary"}

\* node <script> [--reset]
RunStart(script, flag) ==
    /\ run.pc = "off"
    /\ run' = [NoRun EXCEPT !.pc = "connect", !.script = script, !.flag = flag]
    /\ UNCHANGED <<store, nextId, req, hist, res, feedbacks, server, admins, tracks, stations, oid>>

\* await mongoose.connect(MONGODB_URI)
Connect ==
    /\ run.pc = "connect"
    /\ run' = [run EXCEPT !.pc = AfterConnect(run.script), !.connected = TRUE]
    /\ UNCHANGED <<store, nextId, req, hist, res, feedbacks, server, admins, tracks, stations, oid>>

\* await Station.deleteMany({})
ClearStations ==
    /\ run.pc = "clearStations"
    /\ stations' = {}
    /\ run' = [run EXCEPT !.pc = AfterClearStations(run.script)]
    /\ UNCHANGED <<store, nextId, req, hist, res, feedbacks, server, admins, tracks, oid>>

\* await Track.deleteMany({})
ClearTracks ==
    /\ run.pc = "clearTracks"
    /\ tracks' = {}
    /\ run' = [run EXCEPT !.pc = AfterClearTracks(run.script)]
    /\ UNCHANGED <<store, nextId, req, hist, res, feedbacks, server, admins, stations, oid>>

\* await Administration.deleteMany({})
ClearAdmins ==
    /\ run.pc = "clearAdmins"
    /\ admins' = {}
    /\ run' = [run EXCEPT !.pc = "clearParticipants"]
    /\ UNCHANGED <<store, nextId, req, hist, res, feedbacks, server, tracks, stations, oid>>

\* await Client.deleteMany({}); await Examiner.deleteMany({});
\* await Examinee.deleteMany({})
ClearParticipants ==
    /\ run.pc = "clearParticipants"
    /\ store' = {}
    /\ run' = [run EXCEPT !.pc = "readTemplate"]
    /\ UNCHANGED <<nextId, req, hist, res, feedbacks, server, admins, tracks, stations, oid>>

\* await Administration.updateMany({}, { $set: { tracks: [] } })
ClearAdminLists ==
    /\ run.pc = "clearLists"
    /\ admins' = ClearLists(admins)
    /\ run' = [run EXCEPT !.pc = "findAdmins"]
    /\ UNCHANGED <<store, nextId, req, hist, res, feedbacks, server, tracks, stations, oid>>

\* the template is read and the configuration built; then the loop over
\* the administrations is entered
ReadTemplate(template) ==
    /\ run.pc = "readTemplate"
    /\ run' = [run EXCEPT !.config = Config(template), !.a = 1,
                          !.pc = IF template = <<>> THEN "readRoster" ELSE "saveAdmin"]
    /\ UNCHANGED <<store, nextId, req, hist, res, feedbacks, server, admins, tracks, stations, oid>>

\* const administrations = await Administration.find(); process.exit(1)
\* when there is none; else the loop over them is entered
FindAdmins ==
    /\ run.pc = "findAdmins"
    /\ LET found == InOrder(admins)
       IN  run' = IF found = <<>> THEN [run EXCEPT !.pc = "exited", !.exit = 1]
                  ELSE [run EXCEPT !.found = found, !.a = 1, !.t = 1,
                                   !.admin = found[1]._id, !.adminName = found[1].name,
                                   !.trackIds = <<>>, !.pc = "saveTrack"]
    /\ UNCHANGED <<store, nextId, req, hist, res, feedbacks, server, admins, tracks, stations, oid>>

\* await administration.save()
SaveAdmin ==
    /\ run.pc = "saveAdmin"
    /\ oid <= MaxOid
    /\ LET c == run.config[run.a]
       IN  /\ admins' = admins \cup {AdminDoc(oid, c.name)}
           /\ run' = [run EXCEPT !.admin = oid, !.adminName = c.name, !.trackIds = <<>>,
                                 !.t = 1,
                                 !.pc = IF c.tracks = <<>> THEN "linkTracks" ELSE "saveTrack"]
    /\ oid' = oid + 1
    /\ UNCHANGED <<store, nextId, req, hist, res, feedbacks, server, tracks, stations>>

\* setup.ts: await track.save(); trackIds.push(track._id); then one
\* Station.create per station of the track is issued, each document with
\* its _id, and the batch is awaited
SaveTrack ==
    /\ run.pc = "saveTrack"
    /\ run.script = "setup"
    /\ LET c == run.config[run.a].tracks[run.t]
           n == Len(c.stations)
       IN  /\ oid + n <= MaxOid
           /\ tracks' = tracks \cup {TrackDoc(oid, c.name, run.admin)}
           /\ run' = [run EXCEPT !.track = oid, !.trackName = c.name,
                                 !.trackIds = Append(@, oid),
                                 !.pending = { StationDoc(oid + k, c.stations[k].name, oid) :
                                                 k \in 1..n },
                                 !.pc = "awaitStations"]
           /\ oid' = oid + 1 + n
    /\ UNCHANGED <<store, nextId, req, hist, res, feedbacks, server, admins, stations>>

\* one Station.create of the batch reaches the collection; it may do so
\* while the script is already in its catch
CreateStation(doc) ==
    /\ run.pc \in {"awaitStations", "catch"}
    /\ doc \in run.pending
    /\ stations' = stations \cup {doc}
    /\ run' = [run EXCEPT !.pending = @ \ {doc}]
    /\ UNCHANGED <<store, nextId, req, hist, res, feedbacks, server, admins, tracks, oid>>

\* one Station.create of the batch rejects, and Promise.all with it
CreateStationThrows(doc) ==
    /\ run.pc = "awaitStations"
    /\ doc \in run.pending
    /\ run' = [run EXCEPT !.pending = @ \ {doc}, !.pc = "catch"]
    /\ UNCHANGED <<store, nextId, req, hist, res, feedbacks, server, admins, tracks, stations, oid>>

\* a slip of StationsDone: the batch is not awaited
StationsDoneEarly ==
    /\ run.pc = "awaitStations"
    /\ run' = IF run.t < Len(run.config[run.a].tracks)
              THEN [run EXCEPT !.t = @ + 1, !.pc = "saveTrack"]
              ELSE [run EXCEPT !.pc = "linkTracks"]
    /\ UNCHANGED <<store, nextId, req, hist, res, feedbacks, server, admins, tracks, stations, oid>>

\* await Promise.all(stationPromises) resolves: the next track, or the
\* update of the administration
StationsDone ==
    /\ run.pc = "awaitStations"
    /\ run.pending = {}
    /\ run' = IF run.t < Len(run.config[run.a].tracks)
              THEN [run EXCEPT !.t = @ + 1, !.pc = "saveTrack"]
              ELSE [run EXCEPT !.pc = "linkTracks"]
    /\ UNCHANGED <<store, nextId, req, hist, res, feedbacks, server, admins, tracks, stations, oid>>

\* part_000: await track.save(); trackIds.push(track._id)
FanoutSaveTrack ==
    /\ run.pc = "saveTrack"
    /\ run.script = "fanout"
    /\ oid <= MaxOid
    /\ LET name == FanoutTrackName(run.t, run.adminName)
       IN  /\ tracks' = tracks \cup {TrackDoc(oid, name, run.admin)}
           /\ run' = [run EXCEPT !.track = oid, !.trackName = name,
                                 !.trackIds = Append(@, oid), !.j = 1, !.pc = "saveStation"]
    /\ oid' = oid + 1
    /\ UNCHANGED <<store, nextId, req, hist, res, feedbacks, server, admins, stations>>

\* part_000: await station.save(), the stations one after the other
FanoutSaveStation ==
    /\ run.pc = "saveStation"
    /\ oid <= MaxOid
    /\ stations' = stations \cup
                     {StationDoc(oid, FanoutStationName(run.j, run.trackName), run.track)}
    /\ run' = IF run.j < FanoutStations THEN [run EXCEPT !.j = @ + 1]
              ELSE IF run.t < FanoutTracks THEN [run EXCEPT !.t = @ + 1, !.pc = "saveTrack"]
              ELSE [run EXCEPT !.pc = "linkTracks"]
    /\ oid' = oid + 1
    /\ UNCHANGED <<store, nextId, req, hist, res, feedbacks, server, admins, tracks>>

\* await Administration.findByIdAndUpdate(administration._id,
\* { $set: { tracks: trackIds } }); then the next administration, or the
\* end of the loop
UpdateAdmin ==
    /\ run.pc = "linkTracks"
    /\ admins' = LinkTracks(admins, run.admin, run.trackIds)
    /\ run' = IF run.script = "setup"
              THEN IF run.a < Len(run.config)
                   THEN [run EXCEPT !.a = @ + 1, !.pc = "saveAdmin"]
                   ELSE [run EXCEPT !.pc = "readRoster"]
              ELSE IF run.a < Len(run.found)
                   THEN [run EXCEPT !.a = @ + 1, !.t = 1, !.trackIds = <<>>,
                                    !.admin = run.found[run.a + 1]._id,
                                    !.adminName = run.found[run.a + 1].name,
                                    !.pc = "saveTrack"]
                   ELSE [run EXCEPT !.pc = "summary"]
    /\ UNCHANGED <<store, nextId, req, hist, res, feedbacks, server, tracks, stations, oid>>

\* uploadParticipants(): a participant file is parsed and one
\* findOneAndUpdate per record is issued, each with the _id its insert
\* would take; the batch is awaited
ReadRoster(roster) ==
    /\ run.pc = "readRoster"
    /\ oid + Len(roster) <= MaxOid + 1
    /\ run' = [run EXCEPT !.roster = roster,
                          !.upserts = { [_id |-> oid + k - 1, rec |-> roster[k]] :
                                          k \in DOMAIN roster },
                          !.pc = "awaitUpserts"]
    /\ oid' = oid + Len(roster)
    /\ UNCHANGED <<store, nextId, req, hist, res, feedbacks, server, admins, tracks, stations>>

\* one findOneAndUpdate of the batch reaches the collection
UpsertRecord(u) ==
    /\ run.pc \in {"awaitUpserts", "catch"}
    /\ u \in run.upserts
    /\ store' = Upsert(store, u._id, u.rec)
    /\ run' = [run EXCEPT !.upserts = @ \ {u}]
    /\ UNCHANGED <<nextId, req, hist, res, feedbacks, server, admins, tracks, stations, oid>>

\* one findOneAndUpdate of the batch rejects, and Promise.all with it
UpsertThrows(u) ==
    /\ run.pc = "awaitUpserts"
    /\ u \in run.upserts
    /\ run' = [run EXCEPT !.upserts = @ \ {u}, !.pc = "catch"]
    /\ UNCHANGED <<store, nextId, req, hist, res, feedbacks, server, admins, tracks, stations, oid>>

\* the upserts of a batch run concurrently on the server: one that looked
\* its key up before a sibling inserted it then inserts too, and the unique
\* index rejects it; Promise.all rejects with it
UpsertCollides(u) ==
    /\ run.pc \in {"awaitUpserts", "catch"}
    /\ u \in run.upserts
    /\ \E d \in store : /\ d.examinerId = u.rec.examinerId
                        /\ d._id >= oid - Len(run.roster)
                        /\ d._id # u._id
    /\ run' = [run EXCEPT !.upserts = @ \ {u}, !.pc = "catch",
                          !.error = "E11000 duplicate key error"]
    /\ UNCHANGED <<store, nextId, req, hist, res, feedbacks, server, admins, tracks, stations, oid>>

\* await Promise.all(...) of the participants resolves
UpsertsDone ==
    /\ run.pc = "awaitUpserts"
    /\ run.upserts = {}
    /\ run' = [run EXCEPT !.pc = "summary"]
    /\ UNCHANGED <<store, nextId, req, hist, res, feedbacks, server, admins, tracks, stations, oid>>

\* the summary is printed, the connection closed: process.exit(0)
Finish ==
    /\ run.pc = "summary"
    /\ run' = [run EXCEPT !.pc = "exited", !.exit = 0]
    /\ UNCHANGED <<store, nextId, req, hist, res, feedbacks, server, admins, tracks, stations, oid>>

\* the await the script is at throws: the catch of the script is entered
Throws ==
    /\ run.pc \in ThrowingPcs
    /\ run' = [run EXCEPT !.pc = "catch"]
    /\ UNCHANGED <<store, nextId, req, hist, res, feedbacks, server, admins, tracks, stations, oid>>

\* catch: the error is printed, the connection closed: process.exit(1);
\* what was still in flight dies with the process
ExitFailure ==
    /\ run.pc = "catch"
    /\ run' = [run EXCEPT !.pc = "exited", !.exit = 1, !.pending = {}, !.upserts = {}]
    /\ UNCHANGED <<store, nextId, req, hist, res, feedbacks, server, admins, tracks, stations, oid>>

----------------------------------------------------------------------------
(* Texts and JSON values of the feedback router.  A text is the sequence   *)
(* of its characters; a JSON number is kept in hundredths (2.5 is 250), so *)
(* that a rate with a fraction and an average rounded to two places are    *)
(* integers of the model.                                                  *)

Str(text) == [type |-> "string", value |-> text]
Num(hundredths) == [type |-> "number", value |-> hundredths]
Unit == 100          \* the number 1, in hundredths

LowerCase ==
    <<"a", "b", "c", "d", "e", "f", "g", "h", "i", "j", "k", "l", "m",
      "n", "o", "p", "q", "r", "s", "t", "u", "v", "w", "x", "y", "z">>
UpperCase ==
    <<"A", "B", "C", "D", "E", "F", "G", "H", "I", "J", "K", "L", "M",
      "N", "O", "P", "Q", "R", "S", "T", "U", "V", "W", "X", "Y", "Z">>
Letters == { LowerCase[k] : k \in DOMAIN LowerCase } \cup { UpperCase[k] : k \in DOMAIN UpperCase }
Numerals == {"0", "1", "2", "3", "4", "5", "6", "7", "8", "9"}

\* String.prototype.toLowerCase, on the letters of the alphabets above
ToLowerCase(text) ==
    [k \in DOMAIN text |->
        IF \E n \in DOMAIN UpperCase : UpperCase[n] = text[k]
        THEN LowerCase[CHOOSE n \in DOMAIN UpperCase : UpperCase[n] = text[k]]
        ELSE text[k]]

HexDigits == <<"1", "2", "3", "4", "5", "6", "7", "8", "9", "a", "b", "c", "d", "e", "f">>
HexUpper == <<"A", "B", "C", "D", "E", "F">>
HexChars ==
    {"0"} \cup { HexDigits[k] : k \in DOMAIN HexDigits }
          \cup { HexUpper[k] : k \in DOMAIN HexUpper }
IdLength == 24       \* {24} of the pattern of idParamSchema

\* the value of a hexadecimal digit, in either case
HexValue(c) ==
    IF c = "0" THEN 0
    ELSE IF \E n \in DOMAIN HexDigits : HexDigits[n] = c
    THEN CHOOSE n \in DOMAIN HexDigits : HexDigits[n] = c
    ELSE 9 + CHOOSE n \in DOMAIN HexUpper : HexUpper[n] = c

\* the text of ObjectId n, as toString() prints it: 24 digits, lower case
IdText(n) ==
    [k \in 1..IdLength |->
        IF IdLength - k >= 7 THEN "0"
        ELSE LET v == (n \div 16^(IdLength - k)) % 16
             IN  IF v = 0 THEN "0" ELSE HexDigits[v]]

\* a slip of MatchesIdPattern: every text passes
MatchesAnyText(text) == TRUE

\* /^[0-9a-fA-F]{24}$/
MatchesIdPattern(text) ==
    Len(text) = IdLength /\ \A k \in DOMAIN text : text[k] \in HexChars

\* the cast of a path parameter to ObjectId throws unless the text is 24
\* hexadecimal characters, of either case
CastFails(text) ==
    ~(Len(text) = IdLength /\ \A k \in DOMAIN text : text[k] \in HexChars)

RECURSIVE HexNumber(_)
HexNumber(text) ==
    IF text = <<>> THEN 0
    ELSE 16 * HexNumber(SubSeq(text, 1, Len(text) - 1)) + HexValue(text[Len(text)])

\* the ObjectId a text of 24 hexadecimal characters casts to.  The ObjectIds
\* of the model are numbers below 16^7; every ObjectId from 16^7 on, which
\* no document carries, is held as 16^7.
CastObjectId(text) ==
    IF \E k \in 1..(IdLength - 7) : text[k] # "0" THEN 16^7
    ELSE HexNumber(SubSeq(text, IdLength - 6, IdLength))

\* z.string().email(), the pattern
\* /^(?!\.)(?!.*\.\.)([A-Z0-9_'+\-\.]*)[A-Z0-9_+-]@([A-Z0-9][A-Z0-9\-]*\.)+[A-Z]{2,}$/i:
\* a local part of letters, numerals and _ ' + - . that neither starts with
\* a dot nor ends with a dot or a quote, no two dots in a row, one @, and a
\* domain of labels of letters, numerals and hyphens, each starting with a
\* letter or a numeral, closed by a label of two letters or more
IsEmail(text) ==
    /\ Cardinality({ k \in DOMAIN text : text[k] = "@" }) = 1
    /\ \A k \in 1..(Len(text) - 1) : ~(text[k] = "." /\ text[k + 1] = ".")
    /\ LET at == CHOOSE k \in DOMAIN text : text[k] = "@"
           local == SubSeq(text, 1, at - 1)
           domain == SubSeq(text, at + 1, Len(text))
           dots == { k \in DOMAIN domain : domain[k] = "." }
       IN  /\ local # <<>>
           /\ local[1] # "."
           /\ \A k \in DOMAIN local :
                  local[k] \in Letters \cup Numerals \cup {"_", "'", "+", "-", "."}
           /\ local[Len(local)] \in Letters \cup Numerals \cup {"_", "+", "-"}
           /\ dots # {}
           /\ \A k \in DOMAIN domain :
                  domain[k] \in Letters \cup Numerals \cup {"-", "."}
           /\ domain[1] \in Letters \cup Numerals
           /\ \A k \in dots :
                  IF \A m \in dots : m <= k
                  THEN /\ Len(domain) - k >= 2
                       /\ \A m \in (k + 1)..Len(domain) : domain[m] \in Letters
                  ELSE domain[k + 1] \in Letters \cup Numerals

\* Number.isInteger
IsInteger(hundredths) == hundredths % Unit = 0

FeedbackPaths == {"name", "email", "feedback", "rate"}

\* a slip of ZodField: a rate is any number
ZodFieldAnyRate(path, v) ==
    IF path = "rate" THEN [ok |-> v.type = "number", value |-> v]
    ELSE IF v.type # "string" THEN [ok |-> FALSE, value |-> v]
    ELSE IF path = "email" THEN [ok |-> IsEmail(v.value), value |-> v]
    ELSE [ok |-> Len(v.value) >= 1, value |-> Str(Trim(v.value))]

\* one field of createFeedbackSchema / updateFeedbackSchema: [ok, value].
\* The checks of a string run in the order they were chained: min(1) sees
\* the text as it was sent, trim() then replaces it.
ZodField(path, v) ==
    IF path = "rate"
    THEN [ok |-> v.type = "number" /\ IsInteger(v.value)
                 /\ v.value >= 1 * Unit /\ v.value <= 5 * Unit,
          value |-> v]
    ELSE IF v.type # "string" THEN [ok |-> FALSE, value |-> v]
    ELSE IF path = "email" THEN [ok |-> IsEmail(v.value), value |-> v]
    ELSE [ok |-> Len(v.value) >= 1, value |-> Str(Trim(v.value))]

\* z.object(...).parse(body): keys the schema does not know are stripped.
\* A body is a function from the keys it carries to their values.
ZodParse(body, optional) ==
    [ok |-> /\ \A p \in FeedbackPaths \cap DOMAIN body : ZodField(p, body[p]).ok
            /\ optional \/ FeedbackPaths \subseteq DOMAIN body,
     value |-> [p \in FeedbackPaths \cap DOMAIN body |-> ZodField(p, body[p]).value]]

\* the validators of FeedbackSchema on one path, for a value of the type
\* of the path (a number on rate, a string on the others, which the cast
\* of the path leaves as it is): required on all four (an empty string
\* fails it), min: 1 and max: 5 on rate
FeedbackPathError(path, v) ==
    IF path = "rate"
    THEN v.value < 1 * Unit \/ v.value > 5 * Unit
    ELSE v.value = <<>>

\* new Feedback(body).save(): [error, store]
FeedbackCreate(st, id, body) ==
    IF \E p \in FeedbackPaths : p \notin DOMAIN body \/ FeedbackPathError(p, body[p])
    THEN [error |-> "Feedback validation failed", store |-> st]
    ELSE [error |-> "",
          store |-> st \cup {[_id |-> id, name |-> body.name.value,
                              email |-> body.email.value,
                              feedback |-> body.feedback.value,
                              rate |-> body.rate.value]}]

FeedbackPatch(doc, upd) ==
    [_id |-> doc._id,
     name |-> IF "name" \in DOMAIN upd THEN upd.name.value ELSE doc.name,
     email |-> IF "email" \in DOMAIN upd THEN upd.email.value ELSE doc.email,
     feedback |-> IF "feedback" \in DOMAIN upd THEN upd.feedback.value ELSE doc.feedback,
     rate |-> IF "rate" \in DOMAIN upd THEN upd.rate.value ELSE doc.rate]

\* Feedback.findByIdAndUpdate(id, upd, { new: true, runValidators: true }):
\* the validators run on the paths the update sets, before the lookup
FeedbackFindByIdAndUpdate(st, id, upd) ==
    IF \E p \in FeedbackPaths \cap DOMAIN upd : FeedbackPathError(p, upd[p])
    THEN [error |-> "Validation failed", found |-> FALSE, store |-> st]
    ELSE IF FindById(st, id) = {} THEN [error |-> "", found |-> FALSE, store |-> st]
    ELSE LET doc == CHOOSE d \in st : d._id = id
         IN  [error |-> "", found |-> TRUE,
              store |-> (st \ {doc}) \cup {FeedbackPatch(doc, upd)}]

\* $round: [x, 2] of the quotient sum / n, halves to the even neighbour
RoundedQuotient(sum, n) ==
    LET q == sum \div n
        r == sum % n
    IN  IF 2 * r < n THEN q
        ELSE IF 2 * r > n THEN q + 1
        ELSE IF q % 2 = 0 THEN q ELSE q + 1

RECURSIVE SumOf(_)
SumOf(q) == IF q = <<>> THEN 0 ELSE Head(q) + SumOf(Tail(q))

\* a slip of RatingCount: the entries of k or more
RatingCountAtLeast(ratings, k) ==
    Cardinality({ i \in DOMAIN ratings : ratings[i] >= k * Unit })

\* $size of $filter: the entries of ratings equal to the number k
RatingCount(ratings, k) == Cardinality({ i \in DOMAIN ratings : ratings[i] = k * Unit })

StatsOf(total, average, ratings) ==
    [totalFeedbacks |-> total, averageRating |-> average,
     rating5 |-> RatingCount(ratings, 5), rating4 |-> RatingCount(ratings, 4),
     rating3 |-> RatingCount(ratings, 3), rating2 |-> RatingCount(ratings, 2),
     rating1 |-> RatingCount(ratings, 1)]

\* the result of getStats when the aggregation returns no group
DefaultStats ==
    [totalFeedbacks |-> 0, averageRating |-> 0,
     rating5 |-> 0, rating4 |-> 0, rating3 |-> 0, rating2 |-> 0, rating1 |-> 0]

\* Feedback.aggregate([$group, $project]): one group over the collection,
\* none when it is empty
Aggregate(st) ==
    IF st = {} THEN <<>>
    ELSE LET docs == InOrder(st)
             ratings == [k \in DOMAIN docs |-> docs[k].rate]
         IN  <<StatsOf(Len(ratings), RoundedQuotient(SumOf(ratings), Len(ratings)),
                       ratings)>>

\* const result = stats.length > 0 ? stats[0] : { ...zeros }
Stats(st) == IF Len(Aggregate(st)) > 0 THEN Aggregate(st)[1] ELSE DefaultStats

----------------------------------------------------------------------------
(* The routes with their responses.  A request names a document by the     *)
(* text of an id in its path; res keeps what the handler answered.         *)

\* res.status(status).json({ message })
Reply(status, message) ==
    [status |-> status, message |-> message, error |-> "", id |-> None, stats |-> NoStats]

\* res.status(status).json({ error }): the body has no message
ErrorReply(status, error) ==
    [status |-> status, message |-> "", error |-> error, id |-> None, stats |-> NoStats]

\* res.status(status).json(document)
Json(status, id) ==
    [status |-> status, message |-> "", error |-> "", id |-> id, stats |-> NoStats]

\* res.json(result) of getStats
JsonStats(stats) ==
    [status |-> 200, message |-> "", error |-> "", id |-> None, stats |-> stats]

CastError == "Cast to ObjectId failed"

StatsText == <<"s", "t", "a", "t", "s">>
ParamIds == 1..(MaxPreOid + 1)
ParamTexts ==
    { IdText(n) : n \in ParamIds }
        \cup {StatsText, <<"a", "b", "c">>, [k \in 1..IdLength |-> "z"],
              [k \in 1..IdLength |-> "0"],
              [k \in 1..IdLength |-> IF k = IdLength THEN "A" ELSE "0"]}

(* examinerController: the reply of a handler is a function of the         *)
(* collection and of the request; its action stores the reply in res.      *)

PostExaminerReply(st, id, body) ==
    IF CreateStatus(st, id, body) = 201 THEN Json(201, id)
    ELSE Reply(400, Create(st, id, body).error)

PostExaminer(body) ==
    /\ ControllerCreate(body)
    /\ res' = PostExaminerReply(store, nextId, body)
    /\ UNCHANGED hist

GetExaminerReply(st, text) ==
    IF CastFails(text) THEN Reply(500, CastError)
    ELSE IF FindById(st, CastObjectId(text)) = {} THEN Reply(404, "Examiner not found")
    ELSE Json(200, CastObjectId(text))

GetExaminer(text) ==
    /\ res' = GetExaminerReply(store, text)
    /\ UNCHANGED <<store, nextId, req, hist, hvars>>

PutExaminerReply(st, text, body) ==
    IF CastFails(text) THEN Reply(400, CastError)
    ELSE IF UpdateStatus(st, CastObjectId(text), body) = 400
    THEN Reply(400, FindByIdAndUpdate(st, CastObjectId(text), body, TRUE).error)
    ELSE IF UpdateStatus(st, CastObjectId(text), body) = 404
    THEN Reply(404, "Examiner not found")
    ELSE Json(200, CastObjectId(text))

PutExaminer(text, body) ==
    /\ IF CastFails(text) THEN UNCHANGED <<store, nextId, req, hvars>>
       ELSE ControllerUpdate(CastObjectId(text), body)
    /\ res' = PutExaminerReply(store, text, body)
    /\ UNCHANGED hist

DeleteExaminerReply(st, text) ==
    IF CastFails(text) THEN Reply(500, CastError)
    ELSE IF DeleteStatus(st, CastObjectId(text)) = 404 THEN Reply(404, "Examiner not found")
    ELSE Reply(200, "Examiner deleted successfully")

DeleteExaminer(text) ==
    /\ IF CastFails(text) THEN UNCHANGED <<store, nextId, req, hvars>>
       ELSE ControllerDelete(CastObjectId(text))
    /\ res' = DeleteExaminerReply(store, text)
    /\ UNCHANGED hist

(* administrationController, trackController, stationController *)

\* a request of the hierarchy whose id does not cast reaches no collection
Untouched ==
    UNCHANGED <<store, nextId, req, hist, admins, tracks, stations, oid, run,
                feedbacks, server>>

\* a slip of ByIdReply: the handler without its null check
ByIdReplyUnchecked(st, text, thrown, missing, found) ==
    IF CastFails(text) THEN thrown ELSE found

\* findById / findByIdAndUpdate / findByIdAndDelete answered by a handler
\* of the hierarchy: 404 when null, the reply of the catch block when the
\* cast of the id throws
ByIdReply(st, text, thrown, missing, found) ==
    IF CastFails(text) THEN thrown
    ELSE IF FindById(st, CastObjectId(text)) = {} THEN Reply(404, missing)
    ELSE found

PostAdministration(body) ==
    /\ AdminCreate(body)
    /\ res' = IF Trim(body.name) = <<>>
              THEN Reply(400, "Name is required and cannot be empty")
              ELSE Json(201, oid)

DeleteAdministrationReply(st, text) ==
    ByIdReply(st, text, ErrorReply(500, CastError), "Administration not found",
              Reply(200, "Administration deleted"))

DeleteAdministration(text) ==
    /\ IF CastFails(text) THEN Untouched ELSE AdminDelete(CastObjectId(text))
    /\ res' = DeleteAdministrationReply(admins, text)

PostTrack(body) ==
    /\ TrackCreate(body)
    /\ res' = IF body.name = Absent \/ body.administrationId = None
              THEN Reply(400, "Track validation failed")
              ELSE Json(201, oid)

GetTrackReply(st, text) ==
    ByIdReply(st, text, Reply(500, CastError), "Track not found", Json(200, CastObjectId(text)))

GetTrack(text) ==
    /\ res' = GetTrackReply(tracks, text)
    /\ Untouched

PutTrackReply(st, text, body) ==
    ByIdReply(st, text, Reply(400, CastError), "Track not found", Json(200, CastObjectId(text)))

PutTrack(text, body) ==
    /\ IF CastFails(text) THEN Untouched
       ELSE TrackUpdate(CastObjectId(text), body)
    /\ res' = PutTrackReply(tracks, text, body)

DeleteTrackReply(st, text) ==
    ByIdReply(st, text, Reply(500, CastError), "Track not found", Reply(200, "Track deleted"))

DeleteTrack(text) ==
    /\ IF CastFails(text) THEN Untouched ELSE TrackDelete(CastObjectId(text))
    /\ res' = DeleteTrackReply(tracks, text)

PostStation(body) ==
    /\ StationCreate(body)
    /\ res' = IF body.name = Absent \/ body.trackId = None
              THEN Reply(400, "Station validation failed")
              ELSE Json(201, oid)

DeleteStationReply(st, text) ==
    ByIdReply(st, text, Reply(500, CastError), "Station not found", Reply(200, "Station deleted"))

DeleteStation(text) ==
    /\ IF CastFails(text) THEN Untouched ELSE StationDelete(CastObjectId(text))
    /\ res' = DeleteStationReply(stations, text)

(* The feedback router: validateIdParam, validateCreateFeedback and        *)
(* validateUpdateFeedback run before feedbackController.                   *)

Unset == [type |-> "undefined", value |-> <<>>]

\* the JSON object of the fields that are set
BodyOf(cells) == [p \in { q \in DOMAIN cells : cells[q] # Unset } |-> cells[p]]

\* a body that createFeedbackSchema accepts, of rate 1 (name padded)
SoundCells ==
    [name |-> Str(<<"A", "l", " ">>), email |-> Str(<<"a", "@", "b", ".", "i", "o">>),
     feedback |-> Str(<<"o", "k">>), rate |-> Num(1 * Unit), note |-> Unset]

FeedbackCells ==
    [name : {Unset, Str(<<>>), Str(<<" ">>), Str(<<"\t">>), Str(<<"A", "l", " ">>)},
     email : {Unset, Str(<<"a", "b">>), Str(<<"a", ".", "@", "b", ".", "i", "o">>),
              Str(<<"a", "@", "b", ".", "i", "o">>)},
     feedback : {Unset, Str(<<"o", "k">>)},
     rate : {Unset, Num(0), Num(1 * Unit), Num(250), Num(5 * Unit), Num(6 * Unit),
             Str(<<"5">>)},
     note : {Unset, Str(<<"x">>)}]

\* the bodies of the requests: those that differ from a sound body in one
\* field at most, and those that set one field at most
FeedbackBodies ==
    { BodyOf(cells) : cells \in
        { c \in FeedbackCells :
            \/ Cardinality({ p \in DOMAIN c : c[p] # SoundCells[p] }) <= 1
            \/ Cardinality({ p \in DOMAIN c : c[p] # Unset }) <= 1 } }

\* the rest of the state of a request of the feedback router
FeedbackFrame ==
    UNCHANGED <<store, nextId, req, hist, admins, tracks, stations, run, server>>

\* validateCreateFeedback, then feedbackController.create: [reply, store]
PostFeedbackOutcome(st, id, body) ==
    LET z == ZodParse(body, FALSE)
        c == FeedbackCreate(st, id, z.value)
    IN  IF ~z.ok THEN [reply |-> Reply(400, "Validation error"), store |-> st]
        ELSE IF c.error # "" THEN [reply |-> Reply(400, c.error), store |-> st]
        ELSE [reply |-> Json(201, id), store |-> c.store]

\* router.post("/", validateCreateFeedback, feedbackController.create)
PostFeedback(body) ==
    /\ oid <= MaxPreOid
    /\ feedbacks' = PostFeedbackOutcome(feedbacks, oid, body).store
    /\ res' = PostFeedbackOutcome(feedbacks, oid, body).reply
    /\ oid' = IF res'.status = 201 THEN oid + 1 ELSE oid
    /\ FeedbackFrame

\* the GET route a path of one segment reaches: "/stats" is registered
\* before "/:id", and the router matches a path without regard to case
FeedbackGetRoute(text) ==
    IF ToLowerCase(text) = StatsText THEN "getStats" ELSE "getById"

GetFeedbackReply(st, text) ==
    IF FeedbackGetRoute(text) = "getStats" THEN JsonStats(Stats(st))
    ELSE IF ~MatchesIdPattern(text) THEN Reply(400, "Invalid ID format")
    ELSE IF FindById(st, CastObjectId(text)) = {} THEN Reply(404, "Feedback not found")
    ELSE Json(200, CastObjectId(text))

\* router.get("/stats", getStats); router.get("/:id", validateIdParam, getById)
GetFeedback(text) ==
    /\ res' = GetFeedbackReply(feedbacks, text)
    /\ UNCHANGED <<feedbacks, oid>>
    /\ FeedbackFrame

\* validateIdParam, validateUpdateFeedback, then feedbackController.update:
\* [reply, store]
PutFeedbackOutcome(st, text, body) ==
    LET z == ZodParse(body, TRUE)
        u == FeedbackFindByIdAndUpdate(st, CastObjectId(text), z.value)
    IN  IF ~MatchesIdPattern(text)
        THEN [reply |-> Reply(400, "Invalid ID format"), store |-> st]
        ELSE IF ~z.ok THEN [reply |-> Reply(400, "Validation error"), store |-> st]
        ELSE IF DOMAIN z.value = {}
        THEN [reply |-> Reply(400, "No data provided for update"), store |-> st]
        ELSE IF u.error # "" THEN [reply |-> Reply(400, u.error), store |-> st]
        ELSE IF ~u.found THEN [reply |-> Reply(404, "Feedback not found"), store |-> st]
        ELSE [reply |-> Json(200, CastObjectId(text)), store |-> u.store]

\* router.put("/:id", validateIdParam, validateUpdateFeedback, update)
PutFeedback(text, body) ==
    /\ feedbacks' = PutFeedbackOutcome(feedbacks, text, body).store
    /\ res' = PutFeedbackOutcome(feedbacks, text, body).reply
    /\ UNCHANGED oid
    /\ FeedbackFrame

\* validateIdParam, then feedbackController.delete: [reply, store]
DeleteFeedbackOutcome(st, text) ==
    IF ~MatchesIdPattern(text)
    THEN [reply |-> Reply(400, "Invalid ID format"), store |-> st]
    ELSE IF FindById(st, CastObjectId(text)) = {}
    THEN [reply |-> Reply(404, "Feedback not found"), store |-> st]
    ELSE [reply |-> Reply(200, "Feedback deleted successfully"),
          store |-> { d \in st : d._id # CastObjectId(text) }]

\* router.delete("/:id", validateIdParam, feedbackController.delete)
DeleteFeedback(text) ==
    /\ feedbacks' = DeleteFeedbackOutcome(feedbacks, text).store
    /\ res' = DeleteFeedbackOutcome(feedbacks, text).reply
    /\ UNCHANGED oid
    /\ FeedbackFrame

----------------------------------------------------------------------------
(* Specifications *)

\* The requests as the router serves them.  hist belongs to the observer of
\* the runs of SpecSeq below and is left alone here.
Start(r, ups) == \E up \in ups : UploadStart(r, up) /\ UNCHANGED <<hist, res>>

Find(r) == UploadFind(r) /\ UNCHANGED <<hist, res>>

Write(r) == UploadWrite(r) /\ UNCHANGED <<hist, res>>

FindThrows(r) == UploadFindThrows(r) /\ UNCHANGED <<hist, res>>

WriteThrows(r) == UploadWriteThrows(r) /\ UNCHANGED <<hist, res>>

CreateRequest == \E b \in Bodies : ControllerCreate(b) /\ UNCHANGED <<hist, res>>

UpdateRequest == \E id \in Ids, b \in Bodies : ControllerUpdate(id, b) /\ UNCHANGED <<hist, res>>

DeleteRequest == \E id \in Ids : ControllerDelete(id) /\ UNCHANGED <<hist, res>>

\* one upload at a time, with controller requests between its steps
Next ==
    \/ Start(1, Uploads)
    \/ Find(1)
    \/ Write(1)
    \/ CreateRequest
    \/ UpdateRequest
    \/ DeleteRequest

Spec == Init /\ [][Next]_vars

\* the same, with a database that may fail any lookup or write of a row
NextFault ==
    \/ Start(1, Uploads)
    \/ Find(1)
    \/ Write(1)
    \/ FindThrows(1)
    \/ WriteThrows(1)
    \/ CreateRequest
    \/ UpdateRequest
    \/ DeleteRequest

SpecFault == Init /\ [][NextFault]_vars

\* two uploads in flight at once, each of a short file, among the
\* controller requests
UploadsConc ==
    { Upload("text/csv", f) : f \in FilesOfLength(MaxLinesConc) }

NextConc ==
    \/ \E r \in Reqs : Start(r, UploadsConc)
    \/ \E r \in Reqs : Find(r)
    \/ \E r \in Reqs : Write(r)
    \/ CreateRequest
    \/ UpdateRequest
    \/ DeleteRequest

SpecConc == Init /\ [][NextConc]_vars

\* a bootstrap script runs on the collections that the requests served
\* before it have left; any await of it may throw
NextSetup ==
    \/ run.pc = "off" /\ CreateRequest
    \/ run.pc = "off" /\ UNCHANGED res /\ \E b \in AdminBodies : AdminCreate(b)
    \/ run.pc = "off" /\ UNCHANGED res /\ \E id \in RefIds, b \in [name : AdminNames] : AdminUpdate(id, b)
    \/ run.pc = "off" /\ UNCHANGED res /\ \E id \in RefIds : AdminDelete(id)
    \/ run.pc = "off" /\ UNCHANGED res /\ \E b \in TrackBodies : TrackCreate(b)
    \/ run.pc = "off" /\ UNCHANGED res /\ \E id \in RefIds, b \in TrackBodies : TrackUpdate(id, b)
    \/ run.pc = "off" /\ UNCHANGED res /\ \E id \in RefIds : TrackDelete(id)
    \/ run.pc = "off" /\ UNCHANGED res /\ \E b \in StationBodies : StationCreate(b)
    \/ run.pc = "off" /\ UNCHANGED res /\ \E id \in RefIds, b \in StationBodies : StationUpdate(id, b)
    \/ run.pc = "off" /\ UNCHANGED res /\ \E id \in RefIds : StationDelete(id)
    \/ \E script \in Scripts, flag \in BOOLEAN : RunStart(script, flag)
    \/ Connect
    \/ ClearStations
    \/ ClearTracks
    \/ ClearAdmins
    \/ ClearParticipants
    \/ ClearAdminLists
    \/ \E template \in Templates : ReadTemplate(template)
    \/ FindAdmins
    \/ SaveAdmin
    \/ SaveTrack
    \/ \E doc \in run.pending : CreateStation(doc)
    \/ \E doc \in run.pending : CreateStationThrows(doc)
    \/ StationsDone
    \/ FanoutSaveTrack
    \/ FanoutSaveStation
    \/ UpdateAdmin
    \/ \E roster \in Rosters : ReadRoster(roster)
    \/ \E u \in run.upserts : UpsertRecord(u)
    \/ \E u \in run.upserts : UpsertThrows(u)
    \/ \E u \in run.upserts : UpsertCollides(u)
    \/ UpsertsDone
    \/ Finish
    \/ Throws
    \/ ExitFailure

SpecSetup == Init /\ [][NextSetup]_vars

(* One upload at a time, with the controller's requests served at any     *)
(* await of its loop.  hist observes each run: the collection when it      *)
(* started, the verdict of each row, and the outcome of the last run for   *)
(* as long as the same file is uploaded again right after it.  A run       *)
(* during which the controller changed the collection is marked            *)
(* "disturbed" and observed no further.                                    *)

Snapshot(rq, st) ==
    [file |-> rq.upload.file, pairs |-> Pairs(st),
     successCount |-> rq.resp.successCount, failureCount |-> rq.resp.failureCount]

SeqStart(up) ==
    /\ UploadStart(1, up)
    /\ UNCHANGED res
    /\ LET rq == req'[1]
           last == IF hist.phase = "ran" /\ hist.runs # <<>>
                      /\ hist.runs[Len(hist.runs)].file = up.file
                   THEN <<hist.runs[Len(hist.runs)]>> ELSE <<>>
       IN  hist' = IF rq.resp.status = 400 THEN NoHist
                   ELSE IF rq.pc = "done"
                   THEN [phase |-> "ran", before |-> store, verdicts |-> <<>>,
                         runs |-> Append(last, Snapshot(rq, store))]
                   ELSE [phase |-> "run", before |-> store, verdicts |-> <<>>,
                         runs |-> last]

SeqFind ==
    /\ UploadFind(1)
    /\ UNCHANGED <<hist, res>>

SeqWrite ==
    /\ UploadWrite(1)
    /\ UNCHANGED res
    /\ LET rq == req'[1]
           ok == Len(rq.success) > Len(req[1].success)
       IN  hist' = IF hist.phase = "disturbed" THEN hist
                   ELSE [hist EXCEPT
                           !.phase = IF rq.pc = "done" THEN "ran" ELSE "run",
                           !.verdicts = Append(@, ok),
                           !.runs = IF rq.pc = "done" THEN Append(@, Snapshot(rq, store'))
                                    ELSE @]

SeqController ==
    /\ \/ \E b \in Bodies : ControllerCreate(b)
       \/ \E id \in Ids, b \in Bodies : ControllerUpdate(id, b)
       \/ \E id \in Ids : ControllerDelete(id)
    /\ hist' = IF req[1].pc \in {"idle", "done"} THEN NoHist
               ELSE IF store' = store THEN hist
               ELSE [NoHist EXCEPT !.phase = "disturbed"]
    /\ UNCHANGED res

NextSeq ==
    \/ \E up \in Uploads : SeqStart(up)
    \/ SeqFind
    \/ SeqWrite
    \/ SeqController

SpecSeq == Init /\ [][NextSeq]_vars

\* The routes answered one request at a time.  The three groups of routes
\* share no collection; a group is served while the collections of the
\* other groups are empty.
RosterEmpty == store = {}
HierarchyEmpty == admins = {} /\ tracks = {} /\ stations = {}
FeedbackEmpty == feedbacks = {}

NextCrud ==
    \/ HierarchyEmpty /\ FeedbackEmpty /\ \E b \in Bodies : PostExaminer(b)
    \/ HierarchyEmpty /\ FeedbackEmpty /\ \E text \in ParamTexts : GetExaminer(text)
    \/ HierarchyEmpty /\ FeedbackEmpty
         /\ \E text \in ParamTexts, b \in Bodies : PutExaminer(text, b)
    \/ HierarchyEmpty /\ FeedbackEmpty /\ \E text \in ParamTexts : DeleteExaminer(text)
    \/ RosterEmpty /\ FeedbackEmpty /\ \E b \in AdminBodies : PostAdministration(b)
    \/ RosterEmpty /\ FeedbackEmpty /\ \E text \in ParamTexts : DeleteAdministration(text)
    \/ RosterEmpty /\ FeedbackEmpty /\ \E b \in TrackBodies : PostTrack(b)
    \/ RosterEmpty /\ FeedbackEmpty /\ \E text \in ParamTexts : GetTrack(text)
    \/ RosterEmpty /\ FeedbackEmpty
         /\ \E text \in ParamTexts, b \in TrackBodies : PutTrack(text, b)
    \/ RosterEmpty /\ FeedbackEmpty /\ \E text \in ParamTexts : DeleteTrack(text)
    \/ RosterEmpty /\ FeedbackEmpty /\ \E b \in StationBodies : PostStation(b)
    \/ RosterEmpty /\ FeedbackEmpty /\ \E text \in ParamTexts : DeleteStation(text)
    \/ RosterEmpty /\ HierarchyEmpty /\ \E b \in FeedbackBodies : PostFeedback(b)
    \/ RosterEmpty /\ HierarchyEmpty /\ \E text \in ParamTexts : GetFeedback(text)
    \/ RosterEmpty /\ HierarchyEmpty
         /\ \E text \in ParamTexts, b \in FeedbackBodies : PutFeedback(text, b)
    \/ RosterEmpty /\ HierarchyEmpty /\ \E text \in ParamTexts : DeleteFeedback(text)

SpecCrud == Init /\ [][NextCrud]_vars

\* The server process of index.ts from its start: the connection to the
\* database is opened without being awaited and a failure of it is logged;
\* app.listen follows whatever becomes of it.  A query issued while mongoose
\* is not connected is buffered, after the cast of its filter and the
\* validation of its document; a buffered query rejects when its timeout
\* elapses, which may be before the connection is established or given up.
InitBoot ==
    /\ store = {}
    /\ nextId = 1
    /\ req = [r \in Reqs |-> IdleReq]
    /\ hist = NoHist
    /\ admins = {}
    /\ tracks = {}
    /\ stations = {}
    /\ oid = 1
    /\ run = NoRun
    /\ feedbacks = {}
    /\ res = NoRes
    /\ server = Booting

ServerFrame ==
    UNCHANGED <<store, nextId, req, hist, admins, tracks, stations, oid, run,
                feedbacks, res>>

\* app.listen(PORT, ...)
ServerListen ==
    /\ ~server.listening
    /\ server' = [server EXCEPT !.listening = TRUE]
    /\ ServerFrame

\* mongoose.connect(MONGODB_URI).then(() => console.log('Connected to MongoDB'))
ServerConnect ==
    /\ server.db = "connecting"
    /\ server' = [server EXCEPT !.db = "connected"]
    /\ ServerFrame

\* .catch((err) => console.error('MongoDB connection error:', err))
ServerConnectFails ==
    /\ server.db = "connecting"
    /\ server' = [server EXCEPT !.db = "failed"]
    /\ ServerFrame

BufferingTimedOut == "Operation buffering timed out"

\* GET /api/examiners/:id on the server as it is: findById casts the id
\* before the query is buffered
ServeGet(text) ==
    /\ server.listening
    /\ IF server.db = "connected" THEN GetExaminer(text)
       ELSE /\ res' = IF CastFails(text) THEN Reply(500, CastError)
                      ELSE Reply(500, BufferingTimedOut)
            /\ UNCHANGED <<store, nextId, req, hist, hvars>>

\* POST /api/examiners on the server as it is: save() validates the
\* document before the insert is buffered
ServePost(body) ==
    /\ server.listening
    /\ IF server.db = "connected" THEN PostExaminer(body)
       ELSE /\ res' = IF ValidationError(body) # "" THEN Reply(400, ValidationError(body))
                      ELSE Reply(400, BufferingTimedOut)
            /\ UNCHANGED <<store, nextId, req, hist, hvars>>

NextServer ==
    \/ ServerListen
    \/ ServerConnect
    \/ ServerConnectFails
    \/ server.listening /\ Start(1, UploadsConc)
    \/ server.listening /\ server.db = "connected" /\ Find(1)
    \/ server.listening /\ server.db = "connected" /\ Write(1)
    \/ server.listening /\ server.db # "connected" /\ FindThrows(1)
    \/ \E b \in Bodies : ServePost(b)
    \/ \E text \in ParamTexts : ServeGet(text)

SpecServer == InitBoot /\ [][NextServer]_vars

\* two uploads in flight at once and nothing else, each of a file of two
\* rows: a first key that both files carry, then a second
RaceRow(key, name) == RowLine([c \in Columns |-> IF c = KeyColumn THEN key ELSE name])

RaceUploads ==
    { Upload("text/csv", [header |-> Columns,
                           lines |-> <<RaceRow("E1", n1), RaceRow(k2, n2)>>]) :
        n1 \in Names, k2 \in Keys, n2 \in Names }

NextRace ==
    \/ \E r \in Reqs : req[r].pc = "idle" /\ Start(r, RaceUploads)
    \/ \E r \in Reqs : Find(r)
    \/ \E r \in Reqs : Write(r)

SpecRace == Init /\ [][NextRace]_vars

----------------------------------------------------------------------------
(* Vocabulary of the properties *)

IsCsv(up) == up.hasFile /\ up.mimetype = "text/csv"

Running(rq) == rq.pc \in {"find", "write"}

Answered200(rq) == rq.pc = "done" /\ rq.resp.status = 200

\* the rows the loop has finished with
Processed(rq) ==
    IF rq.pc = "done" THEN rq.records ELSE SubSeq(rq.records, 1, rq.i - 1)

StripReason(f) == [examinerId |-> f.examinerId, name |-> f.name]

StripReasons(q) == [k \in DOMAIN q |-> StripReason(q[k])]

\* the lines of a file that are data rows
DataRows(file) == { k \in DOMAIN file.lines : file.lines[k].type = "row" }

RECURSIVE IsSubsequence(_, _)
IsSubsequence(a, b) ==
    IF a = <<>> THEN TRUE
    ELSE IF b = <<>> THEN FALSE
    ELSE IF Head(a) = Head(b) THEN IsSubsequence(Tail(a), Tail(b))
    ELSE IsSubsequence(a, Tail(b))

\* c is a and b shuffled together, each in its own order
RECURSIVE IsMergeOf(_, _, _)
IsMergeOf(a, b, c) ==
    IF c = <<>> THEN a = <<>> /\ b = <<>>
    ELSE \/ a # <<>> /\ Head(a) = Head(c) /\ IsMergeOf(Tail(a), b, Tail(c))
         \/ b # <<>> /\ Head(b) = Head(c) /\ IsMergeOf(a, Tail(b), Tail(c))

KeysOf(st) == { d.examinerId : d \in st }

IdsOf(st) == { d._id : d \in st }

\* a record without a natural key, and one without a name
NoKey(rec) == rec.examinerId \in {"", Undefined}

\* how many entries of a list are of one sort
CountOf(q, P(_)) == Cardinality({ k \in DOMAIN q : P(q[k]) })

NoName(rec) == rec.name \in {"", Undefined}

\* the natural keys a file carries
FileKeys(rq) == { rq.records[k].examinerId : k \in DOMAIN rq.records }

\* the name of the last row of a file that carries a key
LastNameFor(records, key) ==
    records[CHOOSE k \in DOMAIN records :
                /\ records[k].examinerId = key
                /\ \A m \in DOMAIN records : records[m].examinerId = key => m <= k].name

\* rows m and n of an undisturbed run, both of one key that was not stored
\* before: both succeeded, one record was inserted for the key, and it
\* carries the name of the last row of that key
SameKeyRowsReconciled(rq, m, n) ==
    LET key == rq.records[m].examinerId
    IN  /\ hist.verdicts[m] /\ hist.verdicts[n]
        /\ Cardinality({ d \in store : d.examinerId = key }) = 1
        /\ Cardinality(store) = Cardinality(hist.before)
                + Cardinality(KeysOf(store) \ KeysOf(hist.before))
        /\ \A d \in store : d.examinerId = key =>
               /\ d._id \notin IdsOf(hist.before)
               /\ d.name = LastNameFor(rq.records, key)

\* the outcome the specification gives for its acceptance scenario
ScenarioOutcome(rq) ==
    (rq.upload.file = ScenarioFile /\ hist.before = {}) =>
        /\ rq.resp.successCount = 3
        /\ rq.resp.failureCount = 0
        /\ Pairs(store) = {<<"E1", "Ann B">>, <<"E2", "Bob">>}

----------------------------------------------------------------------------
(* C1: uploading the same file twice in a row leaves the same               *)
(* (naturalKey, name) pairs in the collection after the second run as      *)
(* after the first, and the second run reports the same successCount and   *)
(* failureCount as the first.                                              *)
C1_RerunSameOutcome ==
    Len(hist.runs) = 2 =>
        /\ hist.runs[2].pairs = hist.runs[1].pairs
        /\ hist.runs[2].successCount = hist.runs[1].successCount
        /\ hist.runs[2].failureCount = hist.runs[1].failureCount

\* the half of C1 about the stored pairs alone
RerunSamePairs ==
    Len(hist.runs) = 2 => hist.runs[2].pairs = hist.runs[1].pairs

(* C2: a failure of the lookup, the insert or the update of one row never  *)
(* stops the loop: every parsed row is reconciled exactly once and ends in *)
(* exactly one of the success and failed lists, so the answer carries      *)
(* totalProcessed = successCount + failureCount = number of data rows.     *)
C2_EveryRowAccounted ==
    \A r \in Reqs :
        LET rq == req[r]
        IN  /\ Running(rq) => Len(rq.success) + Len(rq.failed) = rq.i - 1
            /\ (Running(rq) \/ Answered200(rq)) =>
                   IsMergeOf(rq.success, StripReasons(rq.failed), Processed(rq))
            /\ (rq.pc = "done" /\ IsCsv(rq.upload) /\ ~ParseFails(rq.upload.file)) =>
                   /\ rq.resp.status = 200
                   /\ rq.resp.totalProcessed = Cardinality(DataRows(rq.upload.file))
                   /\ rq.resp.totalProcessed = rq.resp.successCount + rq.resp.failureCount
                   /\ rq.resp.successCount = Len(rq.success)
                   /\ rq.resp.failureCount = Len(rq.failed)

\* a row failed on a database error and the row after it was still reconciled
C2_Witness ==
    \E r \in Reqs :
        /\ Answered200(req[r])
        /\ Len(req[r].records) = 2
        /\ Len(req[r].failed) = 1
        /\ req[r].failed[1].reason = "storage unavailable"
        /\ StripReason(req[r].failed[1]) = req[r].records[1]
        /\ req[r].success = <<req[r].records[2]>>

(* C3 as stated: within one upload, when two rows carry the same natural   *)
(* key and no record with that key exists, the first row inserts, the      *)
(* second updates the record the first inserted, both rows are reported as *)
(* successes and the stored name is the name of the last row.              *)
C3_SameKeyRowsAsStated ==
    (hist.phase = "ran" /\ Answered200(req[1])) =>
        LET rq == req[1]
        IN  /\ \A m, n \in DOMAIN rq.records :
                   (m < n /\ rq.records[m].examinerId = rq.records[n].examinerId
                    /\ rq.records[m].examinerId \notin KeysOf(hist.before))
                   => SameKeyRowsReconciled(rq, m, n)
            /\ ScenarioOutcome(rq)

(* C3 as amended: the same, for two rows that each carry a non-empty       *)
(* natural key and a non-empty name.                                       *)
C3_SameKeyRowsInFileOrder ==
    (hist.phase = "ran" /\ Answered200(req[1])) =>
        LET rq == req[1]
        IN  /\ \A m, n \in DOMAIN rq.records :
                   (m < n /\ rq.records[m].examinerId = rq.records[n].examinerId
                    /\ rq.records[m].examinerId \notin KeysOf(hist.before)
                    /\ ValidationError(rq.records[m]) = ""
                    /\ ValidationError(rq.records[n]) = "")
                   => SameKeyRowsReconciled(rq, m, n)
            /\ ScenarioOutcome(rq)

\* the acceptance scenario has run on an empty collection
C3_Witness ==
    /\ hist.phase = "ran"
    /\ Answered200(req[1])
    /\ req[1].upload.file = ScenarioFile
    /\ hist.before = {}
    /\ hist.verdicts = <<TRUE, TRUE, TRUE>>

(* C4: in every reachable state, after any sequence and interleaving of    *)
(* create, update-by-id, delete-by-id and upload-csv steps, the collection *)
(* holds at most one record per natural key.                               *)
C4_UniqueNaturalKey ==
    \A d1, d2 \in store : d1.examinerId = d2.examinerId => d1 = d2

\* a create slipped in between the lookup and the insert of a row, and the
\* unique index rejected the insert
C4_Witness ==
    \E r \in Reqs : \E k \in DOMAIN req[r].failed :
        /\ req[r].failed[k].reason = "E11000 duplicate key error"
        /\ req[r].failed[k].examinerId \in KeysOf(store)

(* C5: an upload whose declared media type is not text/csv, or that        *)
(* carries no file, is answered 400 before any parsing: no row is          *)
(* processed and the collection is unchanged.                              *)
C5_RejectedBeforeParsing ==
    /\ [](\A r \in Reqs :
            (req[r].pc = "done" /\ ~IsCsv(req[r].upload)) =>
                /\ req[r].resp.status = 400
                /\ req[r].resp.totalProcessed = 0
                /\ req[r].records = <<>>
                /\ req[r].success = <<>>
                /\ req[r].failed = <<>>)
    /\ [][\A r \in Reqs :
            (req'[r] # req[r] /\ ~IsCsv(req'[r].upload)) =>
                (store' = store /\ nextId' = nextId)]_vars

\* a file with data rows, declared text/plain, was turned down
C5_Witness ==
    \E r \in Reqs :
        /\ req[r].pc = "done"
        /\ req[r].upload.hasFile
        /\ req[r].upload.mimetype = "text/plain"
        /\ DataRows(req[r].upload.file) # {}
        /\ req[r].resp.status = 400
        /\ store # {}

(* C6: a row whose natural key is empty, or whose natural-key column is    *)
(* missing, goes to the failed list and never produces a stored record: no *)
(* record with an empty or undefined natural key is in the collection.     *)
C6_EmptyKeyFails ==
    /\ \A d \in store : ~NoKey(d)
    /\ \A r \in Reqs :
           /\ \A k \in DOMAIN req[r].success : ~NoKey(req[r].success[k])
           /\ (Running(req[r]) \/ Answered200(req[r])) =>
                  CountOf(req[r].failed, NoKey) = CountOf(Processed(req[r]), NoKey)

\* a file without the natural-key column was ingested into a collection
\* that holds records: its row failed and matched none of them
C6_Witness ==
    \E r \in Reqs :
        /\ Answered200(req[r])
        /\ store # {}
        /\ \E k \in DOMAIN req[r].failed :
               /\ req[r].failed[k].examinerId = Undefined
               /\ req[r].failed[k].name \in Names

(* C7: a row that lacks a required field (an empty or missing Name) is     *)
(* recorded in the failed list with a reason and leaves the collection     *)
(* unchanged, on the insert path and on the update path alike.             *)
C7_MissingNameFails ==
    /\ \A d \in store : ~NoName(d)
    /\ hist.phase \in {"run", "ran"} =>
           \A k \in DOMAIN hist.verdicts : NoName(req[1].records[k]) => ~hist.verdicts[k]

(* C8: the success list and the failed list of the answer are each a       *)
(* subsequence of the input rows: two rows of one list stand in the order  *)
(* they had in the file.                                                   *)
C8_ListsKeepFileOrder ==
    \A r \in Reqs :
        (Running(req[r]) \/ Answered200(req[r])) =>
            /\ IsSubsequence(req[r].success, Processed(req[r]))
            /\ IsSubsequence(StripReasons(req[r].failed), Processed(req[r]))

\* two different rows of one file both succeeded
C8_Witness ==
    \E r \in Reqs :
        /\ Answered200(req[r])
        /\ Len(req[r].success) = 2
        /\ req[r].success[1] # req[r].success[2]
        /\ req[r].success[1] = req[r].records[1]

(* C9: when the natural key of a row matches a stored record, the row's    *)
(* fields overwrite that record in place: its _id is unchanged and the     *)
(* number of stored records is unchanged by that row.                      *)
C9_UpdateInPlace ==
    [][\A r \in Reqs :
         (/\ req[r].pc = "write"
          /\ req'[r] # req[r]
          /\ req[r].existing # None
          /\ \E d \in store : /\ d._id = req[r].existing
                              /\ d.examinerId = req[r].records[req[r].i].examinerId)
         => LET rec == req[r].records[req[r].i]
                old == CHOOSE d \in store : d._id = req[r].existing
            IN  /\ Cardinality(store') = Cardinality(store)
                /\ IdsOf(store') = IdsOf(store)
                /\ { d \in store' : d._id # old._id } = { d \in store : d._id # old._id }
                /\ \E d \in store' : /\ d._id = req[r].existing
                                     /\ d.examinerId = rec.examinerId
                                     /\ (rec.name # Undefined => d.name = rec.name)
       ]_vars

\* one identity was ever handed out, and the second row of the file has
\* overwritten the name the first row stored under it
C9_Witness ==
    \E r \in Reqs :
        /\ Len(req[r].success) = 2
        /\ req[r].success[1].examinerId = req[r].success[2].examinerId
        /\ req[r].success[1].name # req[r].success[2].name
        /\ nextId = 2
        /\ store = {[_id |-> 1, examinerId |-> req[r].success[2].examinerId,
                     name |-> req[r].success[2].name]}

(* C10: an upload never deletes a record: every record that was stored     *)
(* before it and whose natural key is not in the file is stored unchanged  *)
(* after it, and the number of stored records never decreases.  No step    *)
(* of an upload, disturbed or not, removes a record, and a record it       *)
(* changes carries a natural key of the file afterwards.                   *)
C10_UploadNeverDeletes ==
    /\ [](hist.phase \in {"run", "ran"} =>
            /\ Cardinality(store) >= Cardinality(hist.before)
            /\ IdsOf(hist.before) \subseteq IdsOf(store)
            /\ \A d \in hist.before : d.examinerId \notin FileKeys(req[1]) => d \in store)
    /\ [][req' # req =>
            /\ Cardinality(store') >= Cardinality(store)
            /\ IdsOf(store) \subseteq IdsOf(store')
            /\ \A d \in store :
                   \/ d \in store'
                   \/ \E e \in store' : /\ e._id = d._id
                                         /\ e.examinerId \in FileKeys(req'[1])
         ]_vars

\* an upload changed the collection and a record of another key is still there
C10_Witness ==
    /\ hist.phase = "ran"
    /\ Answered200(req[1])
    /\ req[1].success # <<>>
    /\ store # hist.before
    /\ \E d \in hist.before : d.examinerId \notin FileKeys(req[1]) /\ d \in store

(* C11: an upload-csv request with a text/csv file is answered 200 with    *)
(* the structured report whenever the parse succeeds, also when some or    *)
(* all rows failed; any other status is answered only for a missing file,  *)
(* a wrong media type or an exception outside the handler of the rows (a   *)
(* CSV parse error), and that status is 400.                               *)
C11_Status200WheneverParsed ==
    \A r \in Reqs :
        LET rq == req[r]
        IN  rq.pc = "done" =>
              /\ rq.resp.status \in {200, 400}
              /\ rq.resp.status = 200 <=>
                     (IsCsv(rq.upload) /\ ~ParseFails(rq.upload.file))
              /\ rq.resp.status = 200 =>
                     /\ rq.resp.message = "CSV processed successfully"
                     /\ rq.resp.totalProcessed = Len(rq.records)
                     /\ rq.resp.successCount = Len(rq.success)
                     /\ rq.resp.failureCount = Len(rq.failed)
              /\ rq.resp.status = 400 =>
                     \/ ~rq.upload.hasFile
                     \/ rq.upload.mimetype # "text/csv"
                     \/ ParseFails(rq.upload.file)

\* every row of a parsed file failed, and the answer is still 200
C11_Witness ==
    \E r \in Reqs :
        /\ Answered200(req[r])
        /\ req[r].success = <<>>
        /\ Len(req[r].failed) = 2
        /\ req[r].resp.failureCount = 2

(* Vocabulary of the properties of the hierarchy *)

\* the template-mode script has begun to create: the wipe is behind it
Creating == run.script = "setup" /\ run.admin # None

TracksOf(adminId) == { t \in tracks : t.administrationId = adminId }

StationsOf(trackId) == { d \in stations : d.trackId = trackId }

IdsOfSeq(q) == [k \in DOMAIN q |-> q[k]._id]

\* every stored track names a stored administration, every stored station
\* a stored track
ReferencesResolve ==
    /\ \A t \in tracks : \E a \in admins : a._id = t.administrationId
    /\ \A d \in stations : \E t \in tracks : t._id = d.trackId

\* the positions <<a, t>> of the tracks of a configuration, and <<a, t, k>>
\* of its stations
TrackPositions(config) ==
    UNION { { <<a, t>> : t \in DOMAIN config[a].tracks } : a \in DOMAIN config }

StationPositions(config) ==
    UNION { { <<p[1], p[2], k>> : k \in DOMAIN config[p[1]].tracks[p[2]].stations } :
            p \in TrackPositions(config) }

(* C12: during template-mode bootstrap creation is parent before child:   *)
(* in every state each stored track names an administration that is       *)
(* stored and each stored station a track that is stored, and the          *)
(* administrations, and the tracks of each, are created in the order of    *)
(* the template: what is stored is a prefix of the template, in the order  *)
(* of creation.                                                            *)
C12_ParentBeforeChild ==
    Creating =>
        /\ ReferencesResolve
        /\ LET as == InOrder(admins)
           IN  /\ Len(as) <= Len(run.config)
               /\ \A a \in DOMAIN as :
                    LET ts == InOrder(TracksOf(as[a]._id))
                    IN  /\ as[a].name = run.config[a].name
                        /\ Len(ts) <= Len(run.config[a].tracks)
                        /\ \A t \in DOMAIN ts : ts[t].name = run.config[a].tracks[t].name
                        /\ a < Len(as) =>
                             /\ Len(ts) = Len(run.config[a].tracks)
                             /\ \A t \in DOMAIN ts : ts[t]._id < as[a + 1]._id
                        /\ \A t \in DOMAIN ts : as[a]._id < ts[t]._id
                        /\ \A t \in DOMAIN ts : \A d \in StationsOf(ts[t]._id) :
                               ts[t]._id < d._id

\* the second track of the second administration of a template is being
\* given its stations
C12_Witness ==
    /\ Creating
    /\ run.pc = "awaitStations"
    /\ run.a = 2
    /\ run.t = 2
    /\ Cardinality(admins) = 2
    /\ Cardinality(tracks) = 4
    /\ Cardinality(stations) = 5
    /\ Cardinality(run.pending) = 1

\* the administrations of the template whose turn of the loop is over
Completed ==
    IF run.pc \in {"readRoster", "awaitUpserts", "summary"}
       \/ (run.pc = "exited" /\ run.exit = 0)
    THEN DOMAIN run.config
    ELSE 1..(run.a - 1)

\* the administration whose tracks and stations are being created
InTurn == IF run.pc \in {"saveTrack", "awaitStations", "linkTracks"} THEN {run.a} ELSE {}

(* C13: after template-mode bootstrap has completed an administration,    *)
(* the stored track-reference list of that administration is the ordered  *)
(* sequence of the identities of the tracks created for it; the list is    *)
(* written by one update, issued after all its tracks and their stations   *)
(* are created, so the administration whose turn is not over has no list.  *)
C13_TrackListWritten ==
    Creating =>
        LET as == InOrder(admins)
        IN  \A a \in DOMAIN as :
               /\ a \in Completed =>
                    /\ as[a].hasTracks
                    /\ as[a].tracks = IdsOfSeq(InOrder(TracksOf(as[a]._id)))
               /\ a \in InTurn => ~as[a].hasTracks

(* C14: after a successful template-mode run over k administrations with  *)
(* t_i tracks each and s_ij stations per track the collections hold        *)
(* exactly k administrations, sum(t_i) tracks and sum(s_ij) stations,      *)
(* every track names a stored administration and every station a stored    *)
(* track.                                                                  *)
C14_CountsAfterSetup ==
    (run.script = "setup" /\ run.pc = "exited" /\ run.exit = 0) =>
        /\ Cardinality(admins) = Len(run.config)
        /\ Cardinality(tracks) = Cardinality(TrackPositions(run.config))
        /\ Cardinality(stations) = Cardinality(StationPositions(run.config))
        /\ ReferencesResolve

\* a run over two administrations, three tracks and four stations has
\* succeeded on collections that held documents of earlier requests
C14_Witness ==
    /\ run.script = "setup"
    /\ run.pc = "exited"
    /\ run.exit = 0
    /\ Cardinality(admins) = 2
    /\ Cardinality(tracks) = 3
    /\ Cardinality(stations) = 4
    /\ oid = 1 + MaxPreOid + 9 + Len(run.roster)

(* C15: if a create or update step of the template-mode bootstrap throws, *)
(* the run aborts: once the script is in its catch no administration, track *)
(* or station is created any more and none that was committed is removed,  *)
(* and the process exits with status 1; a run in which nothing threw exits *)
(* with status 0.                                                          *)
C15_AbortOnFailure ==
    [][run.script = "setup" =>
          /\ run.pc \in {"catch", "exited"} =>
                 /\ admins' = admins
                 /\ tracks' = tracks
                 /\ stations' = stations
          /\ (run.pc # "exited" /\ run'.pc = "exited") =>
                 run'.exit = IF run.pc = "catch" THEN 1 ELSE 0]_vars

(* C16: the destructive reset deletes children before parents: all        *)
(* stations are deleted first, then all tracks, then the track-reference   *)
(* list of every administration is cleared; the reset-only mode deletes no *)
(* administration, and the full wipe deletes the administrations and the   *)
(* participants after the stations and the tracks.                         *)
C16_ChildrenDeletedFirst ==
    [][/\ (run.pc = "clearTracks" /\ run'.pc = AfterClearTracks(run.script)) =>
              stations = {}
       /\ (run.pc = "clearLists" /\ run'.pc = "findAdmins") =>
              (stations = {} /\ tracks = {})
       /\ run.script = "fanout" => IdsOf(admins') = IdsOf(admins)
       /\ (run.pc \in {"clearAdmins", "clearParticipants"} /\ run'.pc # "catch") =>
              (stations = {} /\ tracks = {})]_vars

\* a stored administration without its track-reference list
Bare(d) == [_id |-> d._id, name |-> d.name]

(* C17: right after a destructive reset has completed, whatever the store *)
(* was before, no station and no track is stored and the track-reference   *)
(* list of every administration is the empty list, while the               *)
(* administration records are those of before the reset.                   *)
C17_ResetLeavesEmptyLists ==
    /\ []((run.script = "fanout" /\ run.pc = "findAdmins") =>
            /\ stations = {}
            /\ tracks = {}
            /\ \A d \in admins : d.hasTracks /\ d.tracks = <<>>)
    /\ [][(run.script = "fanout" /\ run.pc \in {"clearTracks", "clearStations", "clearLists"}) =>
            { Bare(d) : d \in admins' } = { Bare(d) : d \in admins }]_vars

(* C18: the destructive wipe is opt-in: a bootstrap run that was not      *)
(* given the reset flag deletes no administration, track, station or       *)
(* participant record.                                                     *)
C18_WipeIsOptIn ==
    [][(run.pc \notin {"off", "exited"} /\ ~run.flag) =>
          /\ IdsOf(admins) \subseteq IdsOf(admins')
          /\ IdsOf(tracks) \subseteq IdsOf(tracks')
          /\ IdsOf(stations) \subseteq IdsOf(stations')
          /\ IdsOf(store) \subseteq IdsOf(store')]_vars

(* C19: fixed fan-out bootstrap creates, for every administration that    *)
(* exists when it starts, exactly 2 tracks named "Track i - adminName"     *)
(* and in each of them exactly 3 stations named "Station j - trackName":   *)
(* over a administrations the store ends with 2a tracks and 6a stations,   *)
(* and the track-reference list of each administration holds the           *)
(* identities of its two tracks in creation order.                         *)
C19_FanoutCreatesTwoByThree ==
    (run.script = "fanout" /\ run.pc = "exited" /\ run.exit = 0) =>
        /\ Cardinality(admins) = Len(run.found)
        /\ Cardinality(tracks) = FanoutTracks * Cardinality(admins)
        /\ Cardinality(stations) = FanoutTracks * FanoutStations * Cardinality(admins)
        /\ \A d \in admins :
             LET ts == InOrder(TracksOf(d._id))
             IN  /\ Len(ts) = FanoutTracks
                 /\ \A i \in DOMAIN ts :
                      LET ss == InOrder(StationsOf(ts[i]._id))
                      IN  /\ ts[i].name = FanoutTrackName(i, d.name)
                          /\ Len(ss) = FanoutStations
                          /\ \A j \in DOMAIN ss :
                                 ss[j].name = FanoutStationName(j, ts[i].name)
                 /\ d.hasTracks
                 /\ Len(d.tracks) = FanoutTracks
                 /\ d.tracks = IdsOfSeq(ts)

(* C20: once a track is stored its administrationId never changes for as  *)
(* long as the track exists, under any sequence of track create,           *)
(* update-by-id and delete-by-id requests and bootstrap runs; likewise     *)
(* the trackId of a station never changes.                                 *)
C20_ParentNeverChanges ==
    [][/\ \A t \in tracks : \A u \in tracks' :
              t._id = u._id => t.administrationId = u.administrationId
       /\ \A d \in stations : \A e \in stations' :
              d._id = e._id => d.trackId = e.trackId]_vars

----------------------------------------------------------------------------
(* Vocabulary of the requests by id *)

\* the text is the id of no document of the collection
Unknown(st, text) == ~CastFails(text) /\ FindById(st, CastObjectId(text)) = {}

NotFound(reply) ==
    reply.status = 404
    /\ reply.message \in {"Examiner not found", "Track not found", "Feedback not found",
                          "Administration not found", "Station not found"}

\* the update validators of the examiner route accept the body
ExaminerUpdateValid(body) == UpdateValidationError(body) = ""

\* updateFeedbackSchema, the check for an empty update and the update
\* validators accept the body
FeedbackUpdateValid(body) ==
    LET z == ZodParse(body, TRUE)
    IN  /\ z.ok
        /\ DOMAIN z.value # {}
        /\ \A p \in DOMAIN z.value : ~FeedbackPathError(p, z.value[p])

Collections == <<store, admins, tracks, stations, feedbacks>>

\* a get or a delete by the id of no document is answered 404
UnknownIdReadOrDelete404 ==
    \A text \in ParamTexts :
        /\ Unknown(store, text) =>
               NotFound(GetExaminerReply(store, text))
               /\ NotFound(DeleteExaminerReply(store, text))
        /\ Unknown(tracks, text) =>
               NotFound(GetTrackReply(tracks, text))
               /\ NotFound(DeleteTrackReply(tracks, text))
        /\ Unknown(feedbacks, text) =>
               NotFound(GetFeedbackReply(feedbacks, text))
               /\ NotFound(DeleteFeedbackOutcome(feedbacks, text).reply)

\* a request answered 404 has changed no collection
NotFoundChangesNothing == NotFound(res') => UNCHANGED Collections

\* a delete answered 200 has removed the document of its id and no other,
\* and a get of that id is answered 404 from then on
DeleteRemovesThatDocument ==
    /\ res' = Reply(200, "Examiner deleted successfully") =>
         \A text \in ParamTexts : DeleteExaminer(text) =>
             /\ FindById(store, CastObjectId(text)) # {}
             /\ store' = store \ FindById(store, CastObjectId(text))
             /\ NotFound(GetExaminerReply(store', text))
    /\ res' = Reply(200, "Track deleted") =>
         \A text \in ParamTexts : DeleteTrack(text) =>
             /\ FindById(tracks, CastObjectId(text)) # {}
             /\ tracks' = tracks \ FindById(tracks, CastObjectId(text))
             /\ NotFound(GetTrackReply(tracks', text))
    /\ res' = Reply(200, "Feedback deleted successfully") =>
         \A text \in ParamTexts : DeleteFeedback(text) =>
             /\ FindById(feedbacks, CastObjectId(text)) # {}
             /\ feedbacks' = feedbacks \ FindById(feedbacks, CastObjectId(text))
             /\ NotFound(GetFeedbackReply(feedbacks', text))

\* an id that was handed out and is the id of no document stays so
DeletedIdsStayUnknown ==
    /\ \A id \in 1..(nextId - 1) : FindById(store, id) = {} => FindById(store', id) = {}
    /\ \A id \in 1..(oid - 1) :
         /\ FindById(tracks, id) = {} => FindById(tracks', id) = {}
         /\ FindById(feedbacks, id) = {} => FindById(feedbacks', id) = {}

----------------------------------------------------------------------------
(* C21 *)

\* C21 as stated: for every kind of entity a get, an update or a delete by
\* an id that matches no stored record is answered 404 and leaves the
\* collections unchanged, whatever the body of the update; a delete of an
\* existing id removes exactly that record and a later get of it is
\* answered 404.
C21_UnknownIdAnswers404 ==
    /\ [](UnknownIdReadOrDelete404
          /\ \A text \in ParamTexts :
               /\ Unknown(store, text) =>
                    \A b \in Bodies : NotFound(PutExaminerReply(store, text, b))
               /\ Unknown(tracks, text) =>
                    \A b \in TrackBodies : NotFound(PutTrackReply(tracks, text, b))
               /\ Unknown(feedbacks, text) =>
                    \A b \in FeedbackBodies :
                        NotFound(PutFeedbackOutcome(feedbacks, text, b).reply))
    /\ [][NotFoundChangesNothing /\ DeleteRemovesThatDocument /\ DeletedIdsStayUnknown]_vars

\* C21, amended: a get or a delete by a well-formed id that matches no
\* stored record is answered 404; an update by such an id is answered 404
\* when its body passes the validation of the route and 400 when it does
\* not; in each case no collection changes.  A delete of an existing id
\* removes exactly that record, and a later get of that id is answered 404.
C21_UnknownIdAnswers404WhenBodyValid ==
    /\ [](UnknownIdReadOrDelete404
          /\ \A text \in ParamTexts :
               /\ Unknown(store, text) =>
                    \A b \in Bodies :
                        /\ PutExaminerReply(store, text, b).status
                             = IF ExaminerUpdateValid(b) THEN 404 ELSE 400
                        /\ FindByIdAndUpdate(store, CastObjectId(text), b, TRUE).store
                             = store
               /\ Unknown(tracks, text) =>
                    \A b \in TrackBodies : NotFound(PutTrackReply(tracks, text, b))
               /\ Unknown(feedbacks, text) =>
                    \A b \in FeedbackBodies :
                        /\ PutFeedbackOutcome(feedbacks, text, b).reply.status
                             = IF FeedbackUpdateValid(b) THEN 404 ELSE 400
                        /\ PutFeedbackOutcome(feedbacks, text, b).store = feedbacks)
    /\ [][NotFoundChangesNothing /\ DeleteRemovesThatDocument /\ DeletedIdsStayUnknown]_vars

\* a track was deleted, and a later request by an id of no track was
\* answered 404 while other tracks are stored
C21_Witness ==
    /\ res = Reply(404, "Track not found")
    /\ tracks # {}
    /\ \E id \in 1..(oid - 1) : FindById(tracks, id) = {}

----------------------------------------------------------------------------
(* C22 *)

RosterKeys == { run.roster[k].examinerId : k \in DOMAIN run.roster }

\* C22: the participant upload of setup() reconciles the rows of a file one
\* after another: no duplicate-key error is raised, and when the upload is
\* over every key of the file is stored once, with the name of its last row
\* (of two rows of one key the second has updated what the first inserted).
C22_RosterRowsInFileOrder ==
    /\ run.error # "E11000 duplicate key error"
    /\ run.script = "setup" /\ run.pc = "summary" =>
         \A key \in RosterKeys :
             /\ Cardinality({ d \in store : d.examinerId = key }) = 1
             /\ \A d \in store :
                  d.examinerId = key => d.name = LastNameFor(run.roster, key)

----------------------------------------------------------------------------
(* C23 *)

\* the stations that the batch of the track at position <<a, t>> creates,
\* the track stored under id
BatchOf(a, t, id) ==
    LET c == run.config[a].tracks[t]
    IN  { StationDoc(id + k, c.stations[k].name, id) : k \in DOMAIN c.stations }

\* the track whose batch is in flight or was cut short by a failure
InBatch(a, t) ==
    a = run.a /\ t = run.t /\ run.pc \in {"awaitStations", "catch", "exited"}

\* C23: in template mode the stations of one track are created as one
\* batch that is awaited as a whole: the stations that result are those of
\* the template whatever the order in which the creates of the batch land,
\* a track is created only when no create of the track before it is still
\* in flight, and tracks are created one at a time.
C23_StationBatchAwaited ==
    /\ [](Creating =>
            LET as == InOrder(admins)
            IN  \A a \in DOMAIN as :
                    LET ts == InOrder(TracksOf(as[a]._id))
                    IN  \A t \in DOMAIN ts :
                            LET batch == BatchOf(a, t, ts[t]._id)
                                got == StationsOf(ts[t]._id)
                            IN  /\ got \subseteq batch
                                /\ ~InBatch(a, t) => got = batch
                                /\ InBatch(a, t) /\ run.pc = "awaitStations" =>
                                     /\ got \cup run.pending = batch
                                     /\ got \cap run.pending = {})
    /\ [][run.script = "setup" /\ tracks' # tracks /\ run.pc = "saveTrack" =>
            /\ run.pending = {}
            /\ Cardinality(tracks') = Cardinality(tracks) + 1]_vars

\* the second track of an administration is about to be created, and the
\* two stations of the first are stored
C23_Witness ==
    /\ Creating
    /\ run.pc = "saveTrack"
    /\ run.t = 2
    /\ run.pending = {}
    /\ Cardinality(StationsOf(run.track)) = 2

----------------------------------------------------------------------------
(* C24 *)

\* a bootstrap script whose connection was not established issues no delete
\* and no create, and exits with status 1
ScriptsStopWithoutStorage ==
    /\ [](run.pc # "off" /\ ~run.connected =>
            /\ run.pc \in {"connect", "catch", "exited"}
            /\ run.pc = "exited" => run.exit = 1)
    /\ [][run.pc # "off" /\ ~run'.connected => UNCHANGED Collections]_vars

\* C24: when the storage is unreachable at connection time the bootstrap
\* scripts issue no delete and no create and exit with a failure status,
\* and the HTTP server does not go on to serve requests: it does not listen
\* and answers nothing once its connection has failed.
C24_NoServiceWithoutStorage ==
    /\ ScriptsStopWithoutStorage
    /\ [](server.db = "failed" => ~server.listening)
    /\ [][server.db = "failed" => UNCHANGED <<req, res>>]_vars

----------------------------------------------------------------------------
(* C25 *)

\* a stored feedback with an integer rate from 1 to 5 and a name, an email
\* and a text that are not empty
WellFormedFeedback(d) ==
    /\ IsInteger(d.rate)
    /\ d.rate >= 1 * Unit
    /\ d.rate <= 5 * Unit
    /\ d.name # <<>>
    /\ d.email # <<>>
    /\ d.feedback # <<>>

\* the value a body gives a path would break WellFormedFeedback
BreaksPath(p, v) ==
    IF p = "rate"
    THEN v.type # "number" \/ ~IsInteger(v.value)
         \/ v.value < 1 * Unit \/ v.value > 5 * Unit
    ELSE v.type # "string" \/ Trim(v.value) = <<>>

BreaksCreate(body) ==
    \E p \in FeedbackPaths : p \notin DOMAIN body \/ BreaksPath(p, body[p])

BreaksUpdate(body) ==
    \E p \in FeedbackPaths \cap DOMAIN body : BreaksPath(p, body[p])

\* C25: after any sequence of creates, updates and deletes of feedbacks
\* every stored feedback has an integer rate from 1 to 5 and a non-empty
\* name, email and feedback text; a create or an update whose body breaks
\* this is answered 400 and stores nothing.
C25_StoredFeedbackWellFormed ==
    /\ \A d \in feedbacks : WellFormedFeedback(d)
    /\ \A b \in FeedbackBodies :
         /\ BreaksCreate(b) =>
              /\ PostFeedbackOutcome(feedbacks, oid, b).reply.status = 400
              /\ PostFeedbackOutcome(feedbacks, oid, b).store = feedbacks
         /\ BreaksUpdate(b) =>
              \A text \in ParamTexts :
                  /\ PutFeedbackOutcome(feedbacks, text, b).reply.status = 400
                  /\ PutFeedbackOutcome(feedbacks, text, b).store = feedbacks

\* two feedbacks are stored, one of them with a rate changed to 5, and the
\* update validators have just rejected an update
C25_Witness ==
    /\ res = Reply(400, "Validation failed")
    /\ Cardinality(feedbacks) = 2
    /\ \E d \in feedbacks : d.rate = 5 * Unit /\ d.name = <<"A", "l">>
    /\ \E d \in feedbacks : d.rate = 1 * Unit

----------------------------------------------------------------------------
(* C26 *)

CountOfRate(k) == Cardinality({ d \in feedbacks : d.rate = k * Unit })

\* the statistics s describe the collection
Describes(s) ==
    /\ s.totalFeedbacks = Cardinality(feedbacks)
    /\ s.rating1 = CountOfRate(1)
    /\ s.rating2 = CountOfRate(2)
    /\ s.rating3 = CountOfRate(3)
    /\ s.rating4 = CountOfRate(4)
    /\ s.rating5 = CountOfRate(5)
    /\ s.rating1 + s.rating2 + s.rating3 + s.rating4 + s.rating5 = s.totalFeedbacks
    /\ feedbacks = {} => s.averageRating = 0

\* C26: GET /api/feedback/stats answers with totalFeedbacks equal to the
\* number of stored feedbacks and rating1..rating5 equal to the number of
\* feedbacks of each rate, which add up to totalFeedbacks; on an empty
\* collection totalFeedbacks, averageRating and all five counts are 0.
C26_StatsDescribeCollection ==
    /\ GetFeedbackReply(feedbacks, StatsText).status = 200
    /\ Describes(GetFeedbackReply(feedbacks, StatsText).stats)
    /\ res.stats # NoStats => Describes(res.stats)

\* the statistics of three feedbacks, two of rate 5 and one of rate 1, were
\* answered: the average is 3.67
C26_Witness ==
    /\ res.status = 200
    /\ res.stats.totalFeedbacks = 3
    /\ res.stats.rating5 = 2
    /\ res.stats.rating1 = 1
    /\ res.stats.averageRating = 367

----------------------------------------------------------------------------
(* C27 *)

\* C27: a get, an update or a delete of a feedback whose id is not 24
\* hexadecimal characters is answered 400 "Invalid ID format" whatever the
\* collection holds and whatever the body, an update whose validated body
\* carries no field of the schema is answered 400 "No data provided for
\* update", and the collection is unchanged in both cases; the path /stats
\* is not subject to the check of the id.
C27_MalformedIdRejected ==
    /\ \A text \in ParamTexts :
         /\ ~MatchesIdPattern(text) =>
              /\ text # StatsText =>
                   GetFeedbackReply(feedbacks, text) = Reply(400, "Invalid ID format")
              /\ DeleteFeedbackOutcome(feedbacks, text)
                   = [reply |-> Reply(400, "Invalid ID format"), store |-> feedbacks]
              /\ \A b \in FeedbackBodies :
                   PutFeedbackOutcome(feedbacks, text, b)
                     = [reply |-> Reply(400, "Invalid ID format"), store |-> feedbacks]
         /\ MatchesIdPattern(text) =>
              \A b \in FeedbackBodies :
                  DOMAIN b \cap FeedbackPaths = {} =>
                      PutFeedbackOutcome(feedbacks, text, b)
                        = [reply |-> Reply(400, "No data provided for update"),
                           store |-> feedbacks]
    /\ ~MatchesIdPattern(StatsText)
    /\ GetFeedbackReply(feedbacks, StatsText) = JsonStats(Stats(feedbacks))
    /\ res.message \in {"Invalid ID format", "No data provided for update"} =>
         res.status = 400

\* a request with a malformed id was answered 400 while feedbacks are stored
C27_Witness ==
    /\ res = Reply(400, "Invalid ID format")
    /\ feedbacks # {}

----------------------------------------------------------------------------
(* C28 *)

\* request r is at the insert of a row whose key another request has
\* inserted since r looked it up
InsertCollides(r) ==
    /\ req[r].pc = "write"
    /\ req[r].existing = None
    /\ req[r].records[req[r].i].examinerId \in KeysOf(store)

\* C28: when two uploads that carry the same new key run at once, under
\* every interleaving one record of that key is stored when both are over;
\* the request whose insert the unique index rejects stores nothing for
\* that row, reports the row in its failed list with the message of the
\* storage error, and goes on with its remaining rows: every row of both
\* files is accounted for at the end.
C28_ConcurrentUploadsOneRecord ==
    /\ []((\A r \in Reqs : req[r].pc = "done") =>
            /\ \A key \in UNION { FileKeys(req[r]) : r \in Reqs } :
                   Cardinality({ d \in store : d.examinerId = key }) = 1
            /\ \A r \in Reqs :
                   /\ Len(req[r].success) + Len(req[r].failed) = Len(req[r].records)
                   /\ \A k \in DOMAIN req[r].failed :
                          req[r].failed[k].reason = "E11000 duplicate key error")
    /\ [][\A r \in Reqs :
            InsertCollides(r) /\ req'[r] # req[r] =>
                /\ store' = store
                /\ req'[r].success = req[r].success
                /\ req'[r].failed =
                     Append(req[r].failed,
                            [examinerId |-> req[r].records[req[r].i].examinerId,
                             name |-> req[r].records[req[r].i].name,
                             reason |-> "E11000 duplicate key error"])
                /\ IF req[r].i < Len(req[r].records)
                   THEN req'[r].pc = "find" /\ req'[r].i = req[r].i + 1
                   ELSE req'[r].pc = "done"]_vars

\* both uploads are over: the first lost the race for the key of its first
\* row, reported that row, and went on to its second row
C28_Witness ==
    /\ \A r \in Reqs : req[r].pc = "done"
    /\ Len(req[1].failed) = 1
    /\ req[1].failed[1].examinerId = "E1"
    /\ req[1].failed[1].reason = "E11000 duplicate key error"
    /\ Len(req[1].success) = 1
    /\ Len(req[2].success) = 2
    /\ Cardinality(store) = 2

----------------------------------------------------------------------------
(* C29 *)

\* C29: the fan-out script run on a store with no administration creates no
\* track and no station and exits with status 1, and it takes that exit
\* only after its reset has deleted every track and every station.
C29_FanoutWithoutAdministration ==
    /\ [](run.script = "fanout" /\ admins = {} =>
            /\ run.pc \in {"connect", "clearTracks", "clearStations", "clearLists",
                           "findAdmins", "catch", "exited"}
            /\ run.pc = "exited" => run.exit = 1)
    /\ [][run.script = "fanout" /\ admins = {} =>
            /\ tracks' \subseteq tracks
            /\ stations' \subseteq stations]_vars
    /\ [][run.script = "fanout" /\ run.pc = "findAdmins" /\ run'.pc = "exited" =>
            /\ admins = {}
            /\ run'.exit = 1
            /\ tracks' = {}
            /\ stations' = {}]_vars

\* the script has exited with status 1 after its reset, on a store without
\* administration in which two documents had been created before the run
C29_Witness ==
    /\ run.script = "fanout"
    /\ run.pc = "exited"
    /\ run.exit = 1
    /\ run.connected
    /\ admins = {}
    /\ tracks = {}
    /\ stations = {}
    /\ oid = 3

----------------------------------------------------------------------------
(* C30 *)

\* the step has removed from st the document of the id and nothing else
RemovesOnly(st, stNext, text) ==
    /\ FindById(st, CastObjectId(text)) # {}
    /\ stNext = st \ FindById(st, CastObjectId(text))

\* C30: the delete by id of an administration, of a track or of a station
\* removes that one document: the tracks that name a deleted administration
\* and the stations that name a deleted track stay stored as they were,
\* and no other collection changes.
C30_DeleteDoesNotCascade ==
    [][/\ res' = Reply(200, "Administration deleted") =>
            \A text \in ParamTexts : DeleteAdministration(text) =>
                /\ RemovesOnly(admins, admins', text)
                /\ UNCHANGED <<tracks, stations, store, feedbacks>>
       /\ res' = Reply(200, "Track deleted") =>
            \A text \in ParamTexts : DeleteTrack(text) =>
                /\ RemovesOnly(tracks, tracks', text)
                /\ UNCHANGED <<admins, stations, store, feedbacks>>
       /\ res' = Reply(200, "Station deleted") =>
            \A text \in ParamTexts : DeleteStation(text) =>
                /\ RemovesOnly(stations, stations', text)
                /\ UNCHANGED <<admins, tracks, store, feedbacks>>]_vars

\* a track was deleted: its administration is stored, and so is its
\* station, which names the track that is gone
C30_Witness ==
    /\ res = Reply(200, "Track deleted")
    /\ admins # {}
    /\ tracks = {}
    /\ \E d \in stations : d.trackId < oid /\ d.trackId \notin IdsOf(admins)

====
